---------------------------- MODULE Spec2Model ----------------------------
(***************************************************************************)
(* Model of the signal-classification and composite-index functions of     *)
(* macrogauge (src/utils).  Every function is a pure function of the table *)
(* its caller passes; the state is the caller's table `df`, the name of    *)
(* the function last called (`call`), the record it returned (`ret`) and   *)
(* the first call the caller made with its result (`first`).               *)
(*                                                                         *)
(* Numbers.  A float is modelled as a fixed-point integer in hundredths    *)
(* (2.3 is 230, a yield of 10.00% is 1000), or as NaN.  Comparisons with   *)
(* NaN are false and arithmetic on NaN gives NaN, as in IEEE-754/numpy.    *)
(***************************************************************************)
EXTENDS Integers, Sequences, FiniteSets, TLC

VARIABLES df, call, ret, first

vars == <<df, call, ret, first>>

---------------------------------------------------------------------------
(* Bounds of the model *)

\* number of rows that precede the latest row in a caller-built metrics table
MaxPrior == 1

\* number of rows of the longest rates table
MaxRateRows == 13

\* number of rows of the longest FX table
MaxFxRows == 13

\* number of rows of the longest merged fiscal table
MaxFiscalRows == 11

---------------------------------------------------------------------------
(* Floats: NaN and NaN-aware comparison / arithmetic *)

\* the float NaN (np.nan); no fixed-point value of the model is this large
NaN == 999999999

IsNaN(x) == x = NaN

\* the float infinity; it compares above every fixed-point value
Inf == 900000000

Gt(a, b) == a # NaN /\ b # NaN /\ a > b
Ge(a, b) == a # NaN /\ b # NaN /\ a >= b
Lt(a, b) == a # NaN /\ b # NaN /\ a < b
Le(a, b) == a # NaN /\ b # NaN /\ a <= b

Sub(a, b) == IF a = NaN \/ b = NaN THEN NaN ELSE a - b

\* n units as hundredths
H(n) == n * 100

\* df.iloc[-1]
Last(rows) == rows[Len(rows)]

\* a record returned when the function raises
Raised(e) == [err |-> e]

---------------------------------------------------------------------------
(* src/utils/fx_logic.py *)

FxIsRed_ge(z, mom) == Ge(z, H(2)) \/ (Gt(z, 150) /\ Gt(mom, H(2)))
\* line 7: z > 2 or (z > 1.5 and mom > 2)
FxIsRed(z, mom) == Gt(z, H(2)) \/ (Gt(z, 150) /\ Gt(mom, H(2)))

\* line 12: z > 1 or mom > 1
FxIsAmber(z, mom) == Gt(z, H(1)) \/ Gt(mom, H(1))

fx_state(rows) ==
    IF Len(rows) = 0 THEN Raised("IndexError")
    ELSE
    LET latest == Last(rows)
        z == latest.Z_Score
        mom == latest.FX_MoM
        metrics == [rate |-> latest.USDZMW, MoM |-> mom, z_score |-> z]
    IN  IF FxIsRed(z, mom)
        THEN [err |-> "none", status |-> "red",
              commentary |-> "Kwacha under stress with sharp depreciation and elevated volatility",
              confidence |-> 85, metrics |-> metrics]
        ELSE IF FxIsAmber(z, mom)
        THEN [err |-> "none", status |-> "amber",
              commentary |-> "FX pressures elevated amid seasonal demand and volatility",
              confidence |-> 70, metrics |-> metrics]
        ELSE [err |-> "none", status |-> "green",
              commentary |-> "FX trading within normal volatility bands",
              confidence |-> 90, metrics |-> metrics]

---------------------------------------------------------------------------
(* src/utils/inflation_logic.py *)

InflIsRed_noband(yoy, mom, band) == Gt(yoy, H(12)) \/ Gt(mom, 40)
\* line 8: yoy > 12 or (mom > 0.4 and yoy > band[1])
InflIsRed(yoy, mom, band) == Gt(yoy, H(12)) \/ (Gt(mom, 40) /\ Gt(yoy, band[2]))

\* line 12: band[1] < yoy <= 12
InflIsAmber(yoy, band) == Lt(band[2], yoy) /\ Le(yoy, H(12))

InflInBand_open(yoy, band) == Lt(band[1], yoy) /\ Lt(yoy, band[2])
\* line 16: band[0] <= yoy <= band[1]
InflInBand(yoy, band) == Le(band[1], yoy) /\ Le(yoy, band[2])

inflation_state(rows, target, band) ==
    \* line 3: prev = df.iloc[-2] is evaluated (and never used)
    IF Len(rows) < 2 THEN Raised("IndexError")
    ELSE
    LET latest == Last(rows)
        yoy == latest.YoY
        mom == latest.MoM
        metrics == [YoY |-> yoy, MoM |-> mom]
    IN  IF InflIsRed(yoy, mom, band)
        THEN [err |-> "none", status |-> "red",
              commentary |-> "Inflation is materially above target and re-accelerating",
              confidence |-> 85, metrics |-> metrics]
        ELSE IF InflIsAmber(yoy, band)
        THEN [err |-> "none", status |-> "amber",
              commentary |-> "Inflation remains above target with limited disinflation progress",
              confidence |-> 70, metrics |-> metrics]
        ELSE IF InflInBand(yoy, band)
        THEN [err |-> "none", status |-> "green",
              commentary |-> "Inflation is within the central bank target range",
              confidence |-> 90, metrics |-> metrics]
        ELSE [err |-> "none", status |-> "green",
              commentary |-> "Inflation is below target with easing price pressures",
              confidence |-> 75, metrics |-> metrics]

---------------------------------------------------------------------------
(* src/utils/economic_analysis.py: compute_recession_probability *)

\* the rows of the table in ascending Date order (df.sort_values("Date"));
\* the dates of a table are distinct
RECURSIVE SortByDate(_)
SortByDate(rows) ==
    IF Len(rows) = 0 THEN <<>>
    ELSE LET i == CHOOSE j \in 1..Len(rows) :
                      \A k \in 1..Len(rows) : rows[j].Date <= rows[k].Date
             rest == [k \in 1..(Len(rows) - 1) |->
                          IF k < i THEN rows[k] ELSE rows[k + 1]]
         IN  <<rows[i]>> \o SortByDate(rest)

\* line 659: df["10 year"] - df["91 days"]
TermSpread(row) == Sub(row.y10, row.d91)

InversionMonths_All(sorted) ==
    IF Len(sorted) < 6 THEN NaN
    ELSE Cardinality({i \in 1..Len(sorted) : Lt(TermSpread(sorted[i]), 0)})
\* line 664: (df["Term_Spread"] < 0).rolling(6).sum().iloc[-1]: the number of
\* negative spreads among the last 6 rows; NaN on fewer than 6 rows
InversionMonths(sorted) ==
    IF Len(sorted) < 6 THEN NaN
    ELSE Cardinality({i \in (Len(sorted) - 5)..Len(sorted) :
                          Lt(TermSpread(sorted[i]), 0)})

\* (new / old - 1) * 100 in hundredths of a percent, rounded down; a float
\* division by zero gives NaN (0/0) or an infinity
PctChange(new, old) ==
    IF new = NaN \/ old = NaN THEN NaN
    ELSE IF old = 0 THEN (IF new = 0 THEN NaN ELSE IF new > 0 THEN Inf ELSE -Inf)
    ELSE ((new - old) * 10000) \div old

\* line 667-668: df["91 days"].pct_change(12).iloc[-1] * 100; NaN on fewer
\* than 13 rows
ShortRateYoY(sorted) ==
    IF Len(sorted) < 13 THEN NaN
    ELSE PctChange(sorted[Len(sorted)].d91, sorted[Len(sorted) - 12].d91)

\* lines 675-682, scores in hundredths (1.0 is 100)
DepthScore(latest_spread) ==
    IF Lt(latest_spread, -100) THEN 100
    ELSE IF Lt(latest_spread, -50) THEN 70
    ELSE IF Lt(latest_spread, 0) THEN 40
    ELSE 0

\* the score as the share of the six months that are inverted
DurationScore_share(inversion_months) ==
    IF inversion_months = NaN THEN 0 ELSE (inversion_months * 100) \div 6

\* lines 685-690
DurationScore(inversion_months) ==
    IF Ge(inversion_months, 4) THEN 100
    ELSE IF Ge(inversion_months, 2) THEN 60
    ELSE 0

\* lines 693-697
PolicyScore(short_rate_yoy) ==
    IF Gt(short_rate_yoy, H(30)) THEN 100
    ELSE IF Gt(short_rate_yoy, H(15)) THEN 50
    ELSE 0

\* lines 702-706: (0.4 d + 0.4 u + 0.2 p) * 100, in hundredths of a percent
Probability(depth, duration, policy) ==
    40 * depth + 40 * duration + 20 * policy

RiskBand_gt(probability) ==
    IF probability > H(60) THEN "High"
    ELSE IF probability > H(40) THEN "Elevated"
    ELSE IF probability > H(20) THEN "Moderate"
    ELSE "Low"
\* lines 711-718
RiskBand(probability) ==
    IF probability >= H(60) THEN "High"
    ELSE IF probability >= H(40) THEN "Elevated"
    ELSE IF probability >= H(20) THEN "Moderate"
    ELSE "Low"

\* str.lower() on the band names
Lower(band) ==
    CASE band = "High" -> "high"
      [] band = "Elevated" -> "elevated"
      [] band = "Moderate" -> "moderate"
      [] band = "Low" -> "low"

compute_recession_probability(rows) ==
    IF Len(rows) = 0 THEN Raised("IndexError")
    ELSE
    LET sorted == SortByDate(rows)
        latest_spread == TermSpread(Last(sorted))
        inversion_months == InversionMonths(sorted)
        short_rate_yoy == ShortRateYoY(sorted)
        probability == Probability(DepthScore(latest_spread),
                                   DurationScore(inversion_months),
                                   PolicyScore(short_rate_yoy))
        band == RiskBand(probability)
    IN  \* line 723: int(inversion_months) raises ValueError on NaN
        IF inversion_months = NaN THEN Raised("ValueError")
        ELSE [err |-> "none",
              probability |-> probability,
              band |-> band,
              latest_spread |-> latest_spread,
              inversion_months |-> inversion_months,
              commentary |-> [probability |-> probability,
                              spread |-> latest_spread,
                              months |-> inversion_months,
                              risk |-> Lower(band)]]

---------------------------------------------------------------------------
(* Sample statistics of a window of floats, as pandas computes them *)

RECURSIVE SumSeq(_)
SumSeq(xs) == IF Len(xs) = 0 THEN 0 ELSE xs[1] + SumSeq(Tail(xs))

\* the defined (non-NaN) values of a window, in order
RECURSIVE DropNaN(_)
DropNaN(xs) ==
    IF Len(xs) = 0 THEN <<>>
    ELSE IF xs[1] = NaN THEN DropNaN(Tail(xs))
    ELSE <<xs[1]>> \o DropNaN(Tail(xs))

\* the largest r with r * r <= v, by bisection on lo..hi
RECURSIVE ISqrtIn(_, _, _)
ISqrtIn(v, lo, hi) ==
    IF lo >= hi THEN lo
    ELSE LET mid == (lo + hi + 1) \div 2
         IN  IF mid * mid <= v THEN ISqrtIn(v, mid, hi)
             ELSE ISqrtIn(v, lo, mid - 1)
ISqrt(v) == ISqrtIn(v, 0, 46340)

\* xs shifted by its first value (mean-centred statistics are unchanged)
Shifted(xs) == [i \in 1..Len(xs) |-> xs[i] - xs[1]]

\* n * sum(x^2) - sum(x)^2 = n (n - 1) var(x), of defined values xs
SumSqDev(xs) ==
    LET ys == Shifted(xs)
        n == Len(ys)
    IN  n * SumSeq([i \in 1..n |-> ys[i] * ys[i]])
          - SumSeq(ys) * SumSeq(ys)

\* n * std(xs) with the sample standard deviation (ddof = 1), rounded down
NTimesStd(xs) == ISqrt((Len(xs) * SumSqDev(xs)) \div (Len(xs) - 1))

\* x / d to hundredths, rounded towards zero, d > 0
Ratio(x, d) == IF x >= 0 THEN (x * 100) \div d ELSE -((-x * 100) \div d)

\* the reciprocal of the epsilon 1e-6 that replaces a zero std
EpsInv == 1000000

\* (x - mean(xs)) / std(xs) in hundredths, of defined values xs and defined x.
\* std is NaN on fewer than 2 values.  On a zero std the float division is
\* 0 / 0 = NaN or an infinity when eps is FALSE (no guard), and a division
\* by 1e-6 when eps is TRUE (.replace(0, 1e-6)).
ZOf(x, xs, eps) ==
    IF Len(xs) < 2 THEN NaN
    ELSE LET n == Len(xs)
             a == n * (x - xs[1]) - SumSeq(Shifted(xs))
             s == NTimesStd(xs)
         IN  IF s # 0 THEN Ratio(a, s)
             ELSE IF eps THEN (a * 100 * EpsInv) \div n
             ELSE IF a = 0 THEN NaN
             ELSE IF a > 0 THEN Inf ELSE -Inf

\* the rolling window ending at row i: rows max(1, i - w + 1) .. i
Window(xs, i, w) ==
    LET lo == IF i - w + 1 < 1 THEN 1 ELSE i - w + 1
    IN  [k \in 1..(i - lo + 1) |-> xs[lo + k - 1]]

\* Series.clip(-3, 3): NaN stays NaN
Clip3(z) == IF z = NaN THEN NaN ELSE IF z > 300 THEN 300 ELSE IF z < -300 THEN -300 ELSE z

---------------------------------------------------------------------------
(* src/utils/fx_metrics.py *)

\* lines 15-19: FX_MoM, and Z_Score over rolling(window) with the default
\* min_periods = window: NaN until `window` rows exist; FX_Std is not guarded
compute_fx_metrics(rows, window) ==
    LET sorted == SortByDate(rows)
        px == [i \in 1..Len(sorted) |-> sorted[i].USDZMW]
    IN  [i \in 1..Len(sorted) |->
            [Date |-> sorted[i].Date,
             USDZMW |-> px[i],
             FX_MoM |-> IF i = 1 THEN NaN ELSE PctChange(px[i], px[i - 1]),
             Z_Score |-> IF i < window THEN NaN
                         ELSE ZOf(px[i], Window(px, i, window), FALSE)]]

---------------------------------------------------------------------------
(* src/utils/fx_stress.py *)

\* the optional reserves_df argument: None, or a table
None == [given |-> FALSE]
Some(rows) == [given |-> TRUE, rows |-> rows]

\* 1000 * std(xs) of prices in hundredths, rounded down: NaN on fewer than 2
\* values; a result of 0 stands for the 1e-6 that .replace(0, 1e-6) puts in
\* place of a zero std (no other std of the model rounds to 0)
StdOrEps(xs) ==
    IF Len(xs) < 2 THEN NaN
    ELSE ISqrt((SumSqDev(xs) * 100) \div (Len(xs) * (Len(xs) - 1)))

\* line 27: FX_Std / FX_Std.rolling(window, min_periods=1).mean(), in
\* hundredths; stds is the window of FX_Std ending at the row
VolRatio(std, stds) ==
    LET defined == DropNaN(stds)
    IN  IF std = NaN \/ Len(defined) = 0 THEN NaN
        ELSE IF SumSeq(defined) = 0 THEN 100
        ELSE Ratio(std * Len(defined), SumSeq(defined))

\* line 28: FX_MoM / FX_MoM.rolling(window, min_periods=1).std()
\*  .replace(0, 1e-6), in hundredths; moms is the window of FX_MoM
MomRatio(mom, moms) ==
    LET defined == DropNaN(moms)
    IN  IF mom = NaN \/ Len(defined) < 2 THEN NaN
        ELSE IF NTimesStd(defined) = 0 THEN mom * EpsInv
        ELSE Ratio(mom * Len(defined), NTimesStd(defined))

Neg(x) == IF x = NaN THEN NaN ELSE -x

\* lines 31-36: Z_Reserves of every row of the reserves table
ReservesZ(reserves_rows, window) ==
    LET r == SortByDate(reserves_rows)
        v == [j \in 1..Len(r) |-> r[j].Gross_International_Reserves]
    IN  [j \in 1..Len(r) |->
            [Date |-> r[j].Date,
             Z_Reserves |-> Neg(ZOf(v[j], Window(v, j, window), TRUE))]]

\* line 36: df.merge(r[["Date", "Z_Reserves"]], on="Date", how="left")
MergeLeft(date, rz) ==
    IF \E j \in 1..Len(rz) : rz[j].Date = date
    THEN rz[CHOOSE j \in 1..Len(rz) : rz[j].Date = date].Z_Reserves
    ELSE NaN

\* lines 31-38: the Z_Reserves column of the row dated `date`
ZReservesCol(date, reserves_df, window) ==
    IF ~reserves_df.given THEN 0
    ELSE MergeLeft(date, ReservesZ(reserves_df.rows, window))

compute_fx_stress_components(fx_rows, reserves_df, window) ==
    LET sorted == SortByDate(fx_rows)
        n == Len(sorted)
        px == [i \in 1..n |-> sorted[i].USDZMW]
        mom == [i \in 1..n |-> IF i = 1 THEN NaN ELSE PctChange(px[i], px[i - 1])]
        std == [i \in 1..n |-> StdOrEps(Window(px, i, window))]
    IN  [i \in 1..n |->
            [Date |-> sorted[i].Date,
             USDZMW |-> px[i],
             FX_MoM |-> mom[i],
             FX_Std |-> std[i],
             Z_Price |-> ZOf(px[i], Window(px, i, window), TRUE),
             Z_Vol |-> VolRatio(std[i], Window(std, i, window)),
             Z_MoM |-> MomRatio(mom[i], Window(mom, i, window)),
             Z_Reserves |-> ZReservesCol(sorted[i].Date, reserves_df, window)]]

\* lines 53-58: 0.35 Z_Price + 0.25 Z_Vol + 0.25 Z_MoM + 0.15 Z_Reserves
WeightedSum(zp, zv, zm, zr) ==
    IF zp = NaN \/ zv = NaN \/ zm = NaN \/ zr = NaN THEN NaN
    ELSE LET t == 35 * zp + 25 * zv + 25 * zm + 15 * zr
         IN  IF t >= 0 THEN t \div 100 ELSE -((-t) \div 100)

compute_fx_stress_index(rows) ==
    [i \in 1..Len(rows) |->
        [Date |-> rows[i].Date,
         Z_Price |-> rows[i].Z_Price,
         Z_Vol |-> rows[i].Z_Vol,
         Z_MoM |-> rows[i].Z_MoM,
         Z_Reserves |-> rows[i].Z_Reserves,
         \* line 60: .clip(-3, 3)
         FX_Stress_Index |-> Clip3(WeightedSum(rows[i].Z_Price, rows[i].Z_Vol,
                                               rows[i].Z_MoM, rows[i].Z_Reserves))]]

\* the amber and red labels exchanged
FxStressBand_swapped(value) ==
    IF Ge(value, H(2)) THEN "amber" ELSE IF Ge(value, H(1)) THEN "red" ELSE "green"

\* lines 79, 84, 89
FxStressBand(value) ==
    IF Ge(value, H(2)) THEN "red" ELSE IF Ge(value, H(1)) THEN "amber" ELSE "green"

fx_stress_state(rows) ==
    IF Len(rows) = 0 THEN Raised("IndexError")
    ELSE
    LET latest == Last(rows)
        prev == IF Len(rows) > 1 THEN rows[Len(rows) - 1] ELSE latest
        value == latest.FX_Stress_Index
        mom_change == Sub(value, prev.FX_Stress_Index)
        status == FxStressBand(value)
    IN  [err |-> "none",
         status |-> status,
         label |-> CASE status = "red" -> "Severe FX Stress"
                     [] status = "amber" -> "Elevated FX Pressure"
                     [] status = "green" -> "FX Stable",
         commentary |-> CASE status = "red" -> "Severe FX stress with disorderly market dynamics and elevated volatility."
                          [] status = "amber" -> "FX pressures elevated with rising volatility and moderate currency depreciation."
                          [] status = "green" -> "FX conditions stable within historical norms, manageable volatility.",
         confidence |-> CASE status = "red" -> 85
                          [] status = "amber" -> 70
                          [] status = "green" -> 90,
         value |-> value,
         mom_change |-> mom_change]

---------------------------------------------------------------------------
(* src/utils/economic_analysis.py: analyze_yield_curve_stress *)

\* DataFrame.mean(axis=1): the mean of the defined values, NaN when none is
MeanSkipNaN(xs) ==
    IF Len(DropNaN(xs)) = 0 THEN NaN
    ELSE SumSeq(DropNaN(xs)) \div Len(DropNaN(xs))

\* lines 482-488
label_curve(slope) ==
    IF Gt(slope, 50) THEN "Inverted"
    ELSE IF Gt(slope, -50) THEN "Flat"
    ELSE "Normal"

analyze_yield_curve_stress(rows) ==
    LET sorted == SortByDate(rows)
        out == [i \in 1..Len(sorted) |->
                  LET short == MeanSkipNaN(sorted[i].short)
                      long == MeanSkipNaN(sorted[i].long)
                  IN  [Date |-> sorted[i].Date,
                       Short_Yield_Avg |-> short,
                       Long_Yield_Avg |-> long,
                       Yield_Curve_Slope |-> Sub(short, long),
                       Yield_Curve_Regime |-> label_curve(Sub(short, long))]]
    IN  IF Len(rows) = 0 THEN Raised("IndexError")
        ELSE [err |-> "none",
              commentary |-> [regime |-> Last(out).Yield_Curve_Regime,
                              short |-> Last(out).Short_Yield_Avg,
                              long |-> Last(out).Long_Yield_Avg],
              rows |-> out]

---------------------------------------------------------------------------
(* src/utils/economic_analysis.py: analyze_fiscal_stress *)

\* x / d in units of 1e-4, d > 0
Ratio4(x, d) == IF x = NaN \/ d = NaN THEN NaN ELSE (x * 10000) \div d

\* line 545: pct_change(12) * 100 of the weighted average yield
YieldYoY(rates) ==
    [i \in 1..Len(rates) |->
        IF i <= 12 THEN NaN ELSE PctChange(rates[i].wav, rates[i - 12].wav)]

\* line 564: the yield YoY of the rates row with this Date, if there is one
MatchedYoY(date, rates) ==
    IF \E j \in 1..Len(rates) : rates[j].Date = date
    THEN YieldYoY(rates)[CHOOSE j \in 1..Len(rates) : rates[j].Date = date]
    ELSE NaN

\* lines 550-559: the sub-metrics of bills row i
FiscalRow(bills, rates, i) ==
    [Date |-> bills[i].Date,
     Short_Term_Ratio |-> Ratio4(bills[i].ob91 + bills[i].ob182, bills[i].ob),
     Issuance_Pressure |->
         IF i < 12 THEN NaN
         ELSE Ratio4(SumSeq(Window([k \in 1..Len(bills) |-> bills[k].Total_Sales],
                                   i, 12)),
                     bills[i].ob),
     Weighted_Yield_YoY |-> MatchedYoY(bills[i].Date, rates),
     matched |-> \E j \in 1..Len(rates) : rates[j].Date = bills[i].Date]

\* lines 564-568: kept by the inner merge and by dropna()
FiscalComplete(row) ==
    /\ row.matched
    /\ row.Short_Term_Ratio # NaN
    /\ row.Issuance_Pressure # NaN
    /\ row.Weighted_Yield_YoY # NaN

\* lines 545-568: the merged table: one row per Date present in both tables
\* (bills order), with the three sub-metrics, rows holding a NaN dropped
FiscalMergedSorted(bills, rates) ==
    SelectSeq([i \in 1..Len(bills) |-> FiscalRow(bills, rates, i)], FiscalComplete)

\* lines 533-568
FiscalMerged(bills_rows, rates_rows) ==
    FiscalMergedSorted(SortByDate(bills_rows), SortByDate(rates_rows))

\* lines 573-574: (series - series.mean()) / series.std(), the value for x
zscore(x, series) == ZOf(x, series, FALSE)

\* lines 576-578: zscore(...).clip(-3, 3)
ClippedZ(x, series) == Clip3(zscore(x, series))

\* lines 583-587: (z_yield + z_rollover + z_issuance) / 3
FiscalStressIndex(zy, zr, zi) ==
    IF zy = NaN \/ zr = NaN \/ zi = NaN THEN NaN
    ELSE IF zy + zr + zi >= 0 THEN (zy + zr + zi) \div 3
    ELSE -((-(zy + zr + zi)) \div 3)

\* lines 592-602
label_stress(x) ==
    IF Le(x, -50) THEN "Accommodative"
    ELSE IF Le(x, 50) THEN "Neutral"
    ELSE IF Le(x, 150) THEN "Tightening"
    ELSE IF Le(x, 250) THEN "Stressed"
    ELSE "Critical"

\* the template choice with Tightening taken for an elevated-risk regime
FiscalTemplate_tightening(regime) ==
    IF regime \in {"Tightening", "Stressed", "Critical"} THEN "heightened vulnerability"
    ELSE "broadly supportive"

\* lines 617-632: the template appended to the commentary
FiscalTemplate(regime) ==
    IF regime \in {"Stressed", "Critical"} THEN "heightened vulnerability"
    ELSE IF regime = "Tightening" THEN "close monitoring"
    ELSE "broadly supportive"

\* lines 581-606: the index and the regime of a row from its three z-scores
FiscalScoredRow(date, zy, zr, zi) ==
    [Date |-> date,
     z_yield |-> zy, z_rollover |-> zr, z_issuance |-> zi,
     Fiscal_Stress_Index |-> FiscalStressIndex(zy, zr, zi),
     Fiscal_Regime |-> label_stress(FiscalStressIndex(zy, zr, zi))]

\* lines 576-606: the merged table with its z-scores, index and regime
FiscalScored(m) ==
    [k \in 1..Len(m) |->
        FiscalScoredRow(
            m[k].Date,
            ClippedZ(m[k].Weighted_Yield_YoY,
                     [j \in 1..Len(m) |-> m[j].Weighted_Yield_YoY]),
            ClippedZ(m[k].Short_Term_Ratio,
                     [j \in 1..Len(m) |-> m[j].Short_Term_Ratio]),
            ClippedZ(m[k].Issuance_Pressure,
                     [j \in 1..Len(m) |-> m[j].Issuance_Pressure]))]

\* lines 609-646: the commentary reads the latest row of the scored table
FiscalReturn(out) ==
    [err |-> "none",
     commentary |-> [index |-> Last(out).Fiscal_Stress_Index,
                     regime |-> Last(out).Fiscal_Regime,
                     template |-> FiscalTemplate(Last(out).Fiscal_Regime)],
     rows |-> out]

\* line 609: df.iloc[-1] of an empty merged table raises
FiscalOfMerged(m) ==
    IF Len(m) = 0 THEN Raised("IndexError") ELSE FiscalReturn(FiscalScored(m))

analyze_fiscal_stress(bills_rows, rates_rows) ==
    FiscalOfMerged(FiscalMerged(bills_rows, rates_rows))

---------------------------------------------------------------------------
(* src/utils/transformations.py: liquidity_traffic_light *)

liquidity_traffic_light(rows) ==
    \* line 46: df['Total_Reserves'].iloc[-2]
    IF Len(rows) < 2 THEN Raised("IndexError")
    ELSE
    LET sorted == SortByDate(rows)
        last_value == sorted[Len(sorted)].Total_Reserves
        prev_value == sorted[Len(sorted) - 1].Total_Reserves
        \* line 47
        mom_change == IF prev_value # 0 THEN PctChange(last_value, prev_value)
                      ELSE NaN
        \* lines 50-55
        status == IF Gt(mom_change, 0) THEN "green"
                  ELSE IF Ge(0, mom_change) /\ Gt(mom_change, H(-5)) THEN "amber"
                  ELSE "red"
        \* line 57
        note == IF mom_change # NaN THEN "MoM % change in reserves" ELSE "MoM change: n/a"
    IN  [err |-> "none", status |-> status, note |-> note,
         mom_change |-> mom_change, last_value |-> last_value]

---------------------------------------------------------------------------
(* src/utils/transformations.py: the other traffic lights.  Each returns
   (status, note, mom_change, last_value); the note is modelled by the value
   it prints. *)

\* lines 12-17: fx status from the % change of USDZMW
FxLight_closed(mom_change) ==
    IF Lt(mom_change, 0) THEN "green"
    ELSE IF Le(0, mom_change) /\ Le(mom_change, H(3)) THEN "amber"
    ELSE "red"
FxLight(mom_change) ==
    IF Lt(mom_change, 0) THEN "green"
    ELSE IF Le(0, mom_change) /\ Lt(mom_change, H(3)) THEN "amber"
    ELSE "red"

\* lines 5-20; lookback_months = 1
fx_traffic_light(rows) ==
    \* line 8: df['USDZMW'].iloc[-2]
    IF Len(rows) < 2 THEN Raised("IndexError")
    ELSE [err |-> "none",
          status |-> FxLight(PctChange(SortByDate(rows)[Len(rows)].USDZMW,
                                       SortByDate(rows)[Len(rows) - 1].USDZMW)),
          note |-> PctChange(SortByDate(rows)[Len(rows)].USDZMW,
                             SortByDate(rows)[Len(rows) - 1].USDZMW),
          mom_change |-> PctChange(SortByDate(rows)[Len(rows)].USDZMW,
                                   SortByDate(rows)[Len(rows) - 1].USDZMW),
          last_value |-> SortByDate(rows)[Len(rows)].USDZMW]

\* df.sort_values('Month'); the months of a table are distinct
RECURSIVE SortByMonth(_)
SortByMonth(rows) ==
    IF Len(rows) = 0 THEN <<>>
    ELSE LET i == CHOOSE j \in 1..Len(rows) :
                      \A k \in 1..Len(rows) : rows[j].Month <= rows[k].Month
         IN  <<rows[i]>> \o SortByMonth([k \in 1..(Len(rows) - 1) |->
                                            IF k < i THEN rows[k] ELSE rows[k + 1]])

\* lines 31-36: inflation status from the latest annual rate
InflationLight(last_value, target_rate) ==
    IF Le(last_value, target_rate) THEN "green"
    ELSE IF Lt(target_rate, last_value) /\ Le(last_value, target_rate + H(3)) THEN "amber"
    ELSE "red"

\* lines 24-39
inflation_traffic_light(rows, target_rate) ==
    IF Len(rows) < 2 THEN Raised("IndexError")
    ELSE [err |-> "none",
          status |-> InflationLight(SortByMonth(rows)[Len(rows)].Inflation_Annual,
                                    target_rate),
          note |-> SortByMonth(rows)[Len(rows)].Inflation_Annual,
          mom_change |-> Sub(SortByMonth(rows)[Len(rows)].Inflation_Annual,
                             SortByMonth(rows)[Len(rows) - 1].Inflation_Annual),
          last_value |-> SortByMonth(rows)[Len(rows)].Inflation_Annual]

\* lines 69-74: policy status from the latest policy rate
PolicyLight(last_value) ==
    IF Le(last_value, H(7)) THEN "green"
    ELSE IF Lt(H(7), last_value) /\ Le(last_value, H(10)) THEN "amber"
    ELSE "red"

\* lines 62-77
policy_traffic_light(rows) ==
    IF Len(rows) < 2 THEN Raised("IndexError")
    ELSE [err |-> "none",
          status |-> PolicyLight(SortByDate(rows)[Len(rows)].BoZ_Policy_Rate),
          note |-> SortByDate(rows)[Len(rows)].BoZ_Policy_Rate,
          mom_change |-> Sub(SortByDate(rows)[Len(rows)].BoZ_Policy_Rate,
                             SortByDate(rows)[Len(rows) - 1].BoZ_Policy_Rate),
          last_value |-> SortByDate(rows)[Len(rows)].BoZ_Policy_Rate]

\* line 87: this_month_sales / opening balance in units of 1e-4, 0 when the
\* opening balance is 0 (falsy); a NaN balance is truthy
FiscalRatio(sales, opening) == IF opening = 0 THEN 0 ELSE Ratio4(sales, opening)

\* lines 90-95: fiscal status from the sales / opening balance ratio
FiscalLight(ratio) ==
    IF Lt(ratio, 2000) THEN "green"
    ELSE IF Le(2000, ratio) /\ Lt(ratio, 4000) THEN "amber"
    ELSE "red"

\* lines 84-85: NaN on a single row; a previous month of 0 is falsy
FiscalMoM(sorted) ==
    IF Len(sorted) < 2 THEN NaN
    ELSE IF sorted[Len(sorted) - 1].Total_Sales = 0 THEN NaN
    ELSE PctChange(sorted[Len(sorted)].Total_Sales, sorted[Len(sorted) - 1].Total_Sales)

\* lines 81-98
fiscal_traffic_light(rows) ==
    \* line 83: df['Total_Sales'].iloc[-1]
    IF Len(rows) < 1 THEN Raised("IndexError")
    ELSE [err |-> "none",
          status |-> FiscalLight(FiscalRatio(SortByDate(rows)[Len(rows)].Total_Sales,
                                             SortByDate(rows)[Len(rows)].Opening_Balance)),
          note |-> IF FiscalMoM(SortByDate(rows)) # NaN
                   THEN "MoM T-bills sales change" ELSE "MoM change: n/a",
          mom_change |-> FiscalMoM(SortByDate(rows)),
          last_value |-> SortByDate(rows)[Len(rows)].Total_Sales]

\* lines 109-114: external status from gross reserves; the reserves column is
\* in millions, last_value = column / 1e3 in billions, so the cuts 5.0 and
\* 4.0 billions are 5000.00 and 4000.00 millions
ExternalLight(reserves) ==
    IF Ge(reserves, H(5000)) THEN "green"
    ELSE IF Le(H(4000), reserves) /\ Lt(reserves, H(5000)) THEN "amber"
    ELSE "red"

\* line 104: millions in hundredths to billions in hundredths, rounded down
Billions(reserves) == IF reserves = NaN THEN NaN ELSE reserves \div 1000

\* lines 102-117
external_traffic_light(rows) ==
    IF Len(rows) < 2 THEN Raised("IndexError")
    ELSE [err |-> "none",
          status |-> ExternalLight(
                         SortByDate(rows)[Len(rows)].Gross_International_Reserves),
          note |-> Billions(SortByDate(rows)[Len(rows)].Gross_International_Reserves),
          mom_change |-> PctChange(
                             SortByDate(rows)[Len(rows)].Gross_International_Reserves,
                             SortByDate(rows)[Len(rows) - 1].Gross_International_Reserves),
          last_value |-> Billions(SortByDate(rows)[Len(rows)].Gross_International_Reserves)]

\* the status left as the previous call set it when neither test assigns it
CopperLight_stale(last_value, copper_base) ==
    IF Ge(last_value, copper_base) THEN "green"
    ELSE IF Ge(last_value, (copper_base * 9) \div 10) THEN "amber"
    ELSE IF ret.err = "none" THEN ret.status
    ELSE "red"

\* lines 128-133: copper status; copper_base * 0.9 is exact for the base 8000
CopperLight(last_value, copper_base) ==
    IF Ge(last_value, copper_base) THEN "green"
    ELSE IF Ge(last_value, (copper_base * 9) \div 10) THEN "amber"
    ELSE "red"

\* lines 121-136
copper_traffic_light(rows, copper_base) ==
    IF Len(rows) < 2 THEN Raised("IndexError")
    ELSE [err |-> "none",
          status |-> CopperLight(SortByDate(rows)[Len(rows)].Copper_US_Tonne, copper_base),
          note |-> SortByDate(rows)[Len(rows)].Copper_US_Tonne,
          mom_change |-> PctChange(SortByDate(rows)[Len(rows)].Copper_US_Tonne,
                                   SortByDate(rows)[Len(rows) - 1].Copper_US_Tonne),
          last_value |-> SortByDate(rows)[Len(rows)].Copper_US_Tonne]

\* lines 146-151: oil status; the float oil_base * 1.1 is 77.00000000000001
\* for the base 70, and no price lies between 77 and it
OilLight(last_value, oil_base) ==
    IF Le(last_value, oil_base) THEN "green"
    ELSE IF Le(last_value, (oil_base * 11) \div 10) THEN "amber"
    ELSE "red"

\* lines 139-154
oil_traffic_light(rows, oil_base) ==
    IF Len(rows) < 2 THEN Raised("IndexError")
    ELSE [err |-> "none",
          status |-> OilLight(SortByDate(rows)[Len(rows)].Oil_US_barrel, oil_base),
          note |-> SortByDate(rows)[Len(rows)].Oil_US_barrel,
          mom_change |-> PctChange(SortByDate(rows)[Len(rows)].Oil_US_barrel,
                                   SortByDate(rows)[Len(rows) - 1].Oil_US_barrel),
          last_value |-> SortByDate(rows)[Len(rows)].Oil_US_barrel]

---------------------------------------------------------------------------
(* src/utils/metrics.py, src/utils/analysis/inflation_logic.py,
   src/utils/analysis/fx_logic.py.  A Series is the sequence of its values. *)

\* a value returned without an exception
Value(v) == [err |-> "none", value |-> v]

\* metrics.py line 2: series.iloc[-2] of a shorter series raises IndexError
mom_change(series) ==
    IF Len(series) < 2 THEN Raised("IndexError")
    ELSE Value(Sub(series[Len(series)], series[Len(series) - 1]))

\* the change over 12 calendar positions taken 13 rows back
yoy_change_13(series) ==
    IF Len(series) < 14 THEN Raised("IndexError")
    ELSE Value(Sub(series[Len(series)], series[Len(series) - 13]))
\* metrics.py line 5: series.iloc[-13] of a shorter series raises IndexError
yoy_change(series) ==
    IF Len(series) < 13 THEN Raised("IndexError")
    ELSE Value(Sub(series[Len(series)], series[Len(series) - 12]))

\* the labels with the cut points taken into the lower label
trend_label_le(value, thresholds) ==
    IF Le(value, thresholds[1]) THEN "low"
    ELSE IF Le(value, thresholds[2]) THEN "moderate"
    ELSE "high"
\* metrics.py lines 7-13
trend_label(value, thresholds) ==
    IF Lt(value, thresholds[1]) THEN "low"
    ELSE IF Lt(value, thresholds[2]) THEN "moderate"
    ELSE "high"

\* a column of a table, in row order
Column(rows, name) == [i \in 1..Len(rows) |-> rows[i][name]]

\* inflation_logic.py lines 7-17, on the two dropna'd columns
InflationSignalOf(yoy, mom) ==
    IF yoy_change(yoy).err # "none" THEN yoy_change(yoy)
    ELSE IF mom_change(mom).err # "none" THEN mom_change(mom)
    ELSE [err |-> "none",
          level |-> Last(yoy),
          mom |-> mom_change(mom).value,
          yoy |-> yoy_change(yoy).value,
          pressure |-> trend_label(Last(yoy), <<H(6), H(10)>>)]

\* inflation_logic.py lines 3-17
inflation_signal(rows) ==
    InflationSignalOf(DropNaN(Column(rows, "Total_Annual_Inflation_Rate")),
                      DropNaN(Column(rows, "Total_Monthly_Inflation_Rate")))

\* fx_logic.py lines 7-12: delta > 0.5, delta < -0.3
FxCondition(delta) ==
    IF Gt(delta, 50) THEN "pressure" ELSE IF Lt(delta, -30) THEN "relief" ELSE "stable"

\* fx_logic.py lines 5-18, on the dropna'd column
FxSignalOf(rate) ==
    IF mom_change(rate).err # "none" THEN mom_change(rate)
    ELSE [err |-> "none",
          level |-> Last(rate),
          mom |-> mom_change(rate).value,
          condition |-> FxCondition(mom_change(rate).value)]

\* fx_logic.py lines 3-18
fx_signal(rows) == FxSignalOf(DropNaN(Column(rows, "Weighted_Rate")))

---------------------------------------------------------------------------
(* src/utils/economic_analysis.py: classify_policy_stance *)

\* abs() of a float
Abs(v) == IF v = NaN THEN NaN ELSE IF v < 0 THEN -v ELSE v

\* format(v, ".1f"): a value in hundredths rounded to tenths, an exact half
\* to the even tenth; nan and inf are printed as such
Fmt1(v) ==
    IF v = NaN \/ v = Inf \/ v = -Inf THEN v
    ELSE IF v % 10 > 5 \/ (v % 10 = 5 /\ (v \div 10) % 2 = 1) THEN (v \div 10) + 1
    ELSE v \div 10

\* the Neutral test closed at the spread of half a point
PolicyStance_closed(short_rate_yoy, term_spread) ==
    IF Gt(short_rate_yoy, H(20)) /\ Lt(term_spread, 0) THEN "Tight"
    ELSE IF Le(Abs(term_spread), 50) /\ Lt(Abs(short_rate_yoy), H(10)) THEN "Neutral"
    ELSE "Accommodative"
\* lines 749-757
PolicyStance(short_rate_yoy, term_spread) ==
    IF Gt(short_rate_yoy, H(20)) /\ Lt(term_spread, 0) THEN "Tight"
    ELSE IF Lt(Abs(term_spread), 50) /\ Lt(Abs(short_rate_yoy), H(10)) THEN "Neutral"
    ELSE "Accommodative"

\* lines 751, 754, 757
PolicySignal(stance) ==
    CASE stance = "Tight" -> "Restrictive financial conditions with elevated recession risk."
      [] stance = "Neutral" -> "Balanced policy stance with no strong directional pressure."
      [] stance = "Accommodative" -> "Supportive policy stance aimed at stimulating growth."

\* lines 759-771
PolicyStanceReturn(stance, short_rate_yoy, term_spread) ==
    [err |-> "none",
     stance |-> stance,
     short_rate_yoy |-> short_rate_yoy,
     term_spread |-> term_spread,
     commentary |-> [stance |-> stance,
                     yoy |-> Fmt1(short_rate_yoy),
                     spread |-> term_spread,
                     signal |-> PolicySignal(stance)]]

\* lines 745-747 on the table sorted by Date
PolicyStanceOf(sorted) ==
    PolicyStanceReturn(PolicyStance(ShortRateYoY(sorted), TermSpread(Last(sorted))),
                       ShortRateYoY(sorted), TermSpread(Last(sorted)))

\* line 745: .iloc[-1] of an empty column raises IndexError
classify_policy_stance(rows) ==
    IF Len(rows) = 0 THEN Raised("IndexError")
    ELSE PolicyStanceOf(SortByDate(rows))

---------------------------------------------------------------------------
(* src/utils/commentary_engine.py: macro_headline.  A sentence is the record
   of its template and of the numbers formatted into it; the headline is the
   sequence of its sentences, each of which the source ends with a period. *)

\* line 8: policy_value is None (as above) or a number
Given(v) == [given |-> TRUE, value |-> v]

\* lines 33-38
FxText(g) ==
    [text |-> IF g.status = "red"
                THEN "The Kwacha experienced **significant depreciation** ({mom:+.2f}% MoM), reflecting elevated FX market pressures"
              ELSE IF g.status = "amber"
                THEN "The Kwacha traded with **moderate depreciation** ({mom:+.2f}% MoM) amid seasonal FX demand"
              ELSE "FX conditions remained broadly **stable** ({mom:+.2f}% MoM)",
     mom |-> g.mom_change]

\* lines 42-47
InflText(g) ==
    [text |-> IF g.status = "red"
                THEN "Inflation remains **elevated** at {value:.1f}%, above the central bank target, with {mom:+.2f}% MoM pressure"
              ELSE IF g.status = "amber"
                THEN "Inflation slightly **exceeds target** at {value:.1f}%, with persistent MoM price pressures ({mom:+.2f}%)"
              ELSE "Inflation is **within target** at {value:.1f}%, with MoM trends easing ({mom:+.2f}%)",
     value |-> Fmt1(g.value),
     mom |-> g.mom_change]

\* lines 51-56
LiqText(g) ==
    [text |-> IF g.status = "red"
                THEN "Banking system liquidity remains **strained**, with total reserves changing {mom:+.2f}% MoM"
              ELSE IF g.status = "amber"
                THEN "Liquidity conditions are **somewhat tight**, total reserves moved {mom:+.2f}% MoM"
              ELSE "Liquidity is broadly **stable**, total reserves changed {mom:+.2f}% MoM",
     mom |-> g.mom_change]

\* lines 60-65
FiscalText(g) ==
    [text |-> IF g.status = "red"
                THEN "Fiscal operations show **high pressure**, with T-bills sales increasing {mom:+.2f}% MoM"
              ELSE IF g.status = "amber"
                THEN "Fiscal position is **moderately tight**, T-bills sales moved {mom:+.2f}% MoM"
              ELSE "Fiscal flows remain **manageable**, T-bills sales changed {mom:+.2f}% MoM",
     mom |-> g.mom_change]

\* lines 69-74
ExtText(g) ==
    [text |-> IF g.status = "red"
                THEN "External sector under **significant pressure**, gross reserves {value:.1f} B ZMW ({mom:+.2f}% MoM)"
              ELSE IF g.status = "amber"
                THEN "External sector shows **moderate stress**, gross reserves {value:.1f} B ZMW ({mom:+.2f}% MoM)"
              ELSE "External sector is **stable**, gross reserves {value:.1f} B ZMW ({mom:+.2f}% MoM)",
     value |-> Fmt1(g.value),
     mom |-> g.mom_change]

\* lines 78-83
CopperText(c) ==
    [text |-> IF c.status_copper = "red"
                THEN "Copper prices show **significant volatility**, changing {mom:+.2f}% MoM"
              ELSE IF c.status_copper = "amber"
                THEN "Copper prices **moderately volatile**, MoM change {mom:+.2f}%"
              ELSE "Copper prices remain **stable**, MoM change {mom:+.2f}%",
     mom |-> c.mom_copper]

\* lines 87-92
OilText(c) ==
    [text |-> IF c.status_oil = "red"
                THEN "Oil prices show **significant volatility**, changing {mom:+.2f}% MoM"
              ELSE IF c.status_oil = "amber"
                THEN "Oil prices **moderately volatile**, MoM change {mom:+.2f}%"
              ELSE "Oil prices remain **stable**, MoM change {mom:+.2f}%",
     mom |-> c.mom_oil]

\* line 97
PolicyText(policy_value) ==
    [text |-> "Monetary policy remains accommodative with BoZ policy rate at {policy_value:.2f}%",
     policy_value |-> policy_value]

\* the oil sentence put before the copper sentence
Headline_oil_first(a) ==
    <<FxText(a.fx_gauge), InflText(a.inflation), LiqText(a.liquidity),
      FiscalText(a.fiscal), ExtText(a.external), OilText(a.commodity),
      CopperText(a.commodity)>>
      \o (IF a.policy_value.given THEN <<PolicyText(a.policy_value.value)>> ELSE <<>>)

\* lines 101-105
Headline(a) ==
    <<FxText(a.fx_gauge), InflText(a.inflation), LiqText(a.liquidity),
      FiscalText(a.fiscal), ExtText(a.external), CopperText(a.commodity),
      OilText(a.commodity)>>
      \o (IF a.policy_value.given THEN <<PolicyText(a.policy_value.value)>> ELSE <<>>)

\* lines 39, 48, 57, 66, 75, 84, 93
Detail(a, key) ==
    CASE key = "FX" -> [commentary |-> FxText(a.fx_gauge), mom |-> a.fx_gauge.mom_change]
      [] key = "Inflation" -> [commentary |-> InflText(a.inflation), mom |-> a.inflation.mom_change]
      [] key = "Liquidity" -> [commentary |-> LiqText(a.liquidity), mom |-> a.liquidity.mom_change]
      [] key = "Fiscal" -> [commentary |-> FiscalText(a.fiscal), mom |-> a.fiscal.mom_change]
      [] key = "External" -> [commentary |-> ExtText(a.external), mom |-> a.external.mom_change]
      [] key = "Copper" -> [commentary |-> CopperText(a.commodity), mom |-> a.commodity.mom_copper]
      [] key = "Oil" -> [commentary |-> OilText(a.commodity), mom |-> a.commodity.mom_oil]
      \* line 98
      [] key = "Policy" -> [commentary |-> PolicyText(a.policy_value.value)]

\* the keys of the details mapping (lines 96-98: Policy only with a value)
DetailKeys(policy_value) ==
    {"FX", "Inflation", "Liquidity", "Fiscal", "External", "Copper", "Oil"}
      \cup (IF policy_value.given THEN {"Policy"} ELSE {})

\* a is the record of the arguments
macro_headline(a) ==
    [err |-> "none",
     headline |-> Headline(a),
     details |-> [key \in DetailKeys(a.policy_value) |-> Detail(a, key)]]

---------------------------------------------------------------------------
(* src/utils/commentary/closing_summary.py.  A string is the sequence of
   its characters; gauges is the sequence of the (key, (status, note)) items
   of the mapping, in its iteration order.  The heading's emoji and dash
   are written in ASCII. *)

\* only the first occurrence replaced (str.replace(old, new, 1))
Replace_first(s, old, new) ==
    [i \in 1..Len(s) |->
        IF s[i] = old /\ (\A j \in 1..(i - 1) : s[j] # old) THEN new ELSE s[i]]

\* str.replace(old, new) for one-character old and new
Replace(s, old, new) == [i \in 1..Len(s) |-> IF s[i] = old THEN new ELSE s[i]]

\* lines 4-6
RECURSIVE Risks(_)
Risks(gauges) ==
    IF Len(gauges) = 0 THEN <<>>
    ELSE (IF gauges[1].status = "red" THEN <<Replace(gauges[1].key, "_", " ")>> ELSE <<>>)
           \o Risks(Tail(gauges))

\* sep.join(strs)
RECURSIVE Join(_, _)
Join(sep, strs) ==
    IF Len(strs) = 0 THEN <<>>
    ELSE IF Len(strs) = 1 THEN strs[1]
    ELSE strs[1] \o sep \o Join(sep, Tail(strs))

\* lines 8-16
ClosingText(snapshot_month, risks) ==
    IF Len(risks) = 0
      THEN [text |-> "### MacroGauge Summary - {snapshot_month}\nRisks remain broadly contained.",
            snapshot_month |-> snapshot_month]
      ELSE [text |-> "\n### MacroGauge Summary - {snapshot_month}\n- Elevated risks observed in **{risk_list}**\n- Policy coordination remains critical\n",
            snapshot_month |-> snapshot_month,
            risk_list |-> Join(<<",", " ">>, risks)]

generate_closing_summary(snapshot_month, gauges) ==
    [err |-> "none", summary |-> ClosingText(snapshot_month, Risks(gauges))]

---------------------------------------------------------------------------
(* src/utils/confidence.py.  Scores are in hundredths; the returned
   confidence is a whole number. *)

\* Python's min(a, b) and max(a, b): a, unless b compares below (above) it,
\* so that an undefined a is returned and an undefined b is not
PyMin(a, b) == IF Lt(b, a) THEN b ELSE a
PyMax(a, b) == IF Gt(b, a) THEN b ELSE a

\* float addition and multiplication by ten
Add(a, b) == IF a = NaN \/ b = NaN THEN NaN ELSE a + b
Times10(v) == IF v = NaN THEN NaN ELSE IF v = Inf THEN Inf ELSE v * 10

\* np.sign
Sign(v) == IF v = NaN THEN NaN ELSE IF v > 0 THEN 1 ELSE IF v < 0 THEN -1 ELSE 0

\* line 11: score = 50 + min(abs(mom_change) * 10, 20); mom and yoy are the
\* arguments mom_change and yoy_change
MoveScore(mom) == Add(H(50), PyMin(Times10(Abs(mom)), H(20)))

\* lines 14-18: == on floats is false when a sign is NaN
TrendScore(score, mom, yoy) ==
    IF ~yoy.given THEN score
    ELSE IF Sign(mom) # NaN /\ Sign(yoy.value) # NaN
              /\ Sign(mom) = Sign(yoy.value)
      THEN Add(score, H(10))
    ELSE Sub(score, H(10))

\* lines 21-23
VolatilityScore(score, volatility) ==
    IF volatility.given /\ Gt(volatility.value, H(2)) THEN Sub(score, H(10)) ELSE score

\* line 25: int(max(10, min(score, 95))); int() truncates, and raises
\* ValueError on NaN
Clamped(score) == PyMax(H(10), PyMin(score, H(95)))
\* the clamped score returned without int()
IntOf_float(v) == Value(v)
IntOf(v) == IF v = NaN THEN Raised("ValueError") ELSE Value(v \div 100)

compute_confidence(mom, yoy, volatility) ==
    IntOf(Clamped(VolatilityScore(TrendScore(MoveScore(mom), mom, yoy),
                                  volatility)))

---------------------------------------------------------------------------
(* src/utils/economic_analysis.py: get_latest_valid_term_spread.  The yield
   columns hold floats, with NaN for a blank cell; pd.to_numeric keeps both. *)

\* line 784: dropna(subset=['91 days', '10 year']) keeps the rows with both
BothPresent(row) == row.d91 # NaN /\ row.y10 # NaN

\* the latest row taken from the end of the table as given, without the sort
LatestValid_unsorted(rows, valid) ==
    IF Len(valid) = 0 THEN [err |-> "none", date |-> None, spread |-> None]
    ELSE [err |-> "none",
          date |-> Given(Last(SelectSeq(rows, BothPresent)).Date),
          spread |-> Given(Sub(Last(SelectSeq(rows, BothPresent)).y10,
                               Last(SelectSeq(rows, BothPresent)).d91))]

\* lines 786-793: (None, None) when no row is left, else the Date and the
\* spread of the last row left; rows is the table as passed
LatestValid(rows, valid) ==
    IF Len(valid) = 0 THEN [err |-> "none", date |-> None, spread |-> None]
    ELSE [err |-> "none",
          date |-> Given(Last(valid).Date),
          spread |-> Given(Sub(Last(valid).y10, Last(valid).d91))]

\* lines 774-793
get_latest_valid_term_spread(rows) ==
    LatestValid(rows, SelectSeq(SortByDate(rows), BothPresent))

---------------------------------------------------------------------------
(* Caller-supplied tables *)

\* k copies of row r
Rep(r, k) == [i \in 1..k |-> r]

\* a table of FX metrics (the columns fx_state reads), latest row last
ZVals == {NaN, -100, 100, 101, 150, 151, 200, 201, 230}
FxMomVals == {NaN, -50, 100, 101, 200, 201, 250}
FxMetricRow(z, m) == [USDZMW |-> 2000, FX_MoM |-> m, Z_Score |-> z]
FxMetricsInputs ==
    { [kind |-> "fx_metrics", by |-> "caller",
       rows |-> Rep(p, k) \o <<FxMetricRow(z, m)>>] :
        p \in {FxMetricRow(0, 0), FxMetricRow(230, 250)}, k \in 0..MaxPrior,
        z \in ZVals, m \in FxMomVals }

\* a table of inflation metrics with the band the caller passes
YoYVals == {NaN, 500, 599, 600, 700, 800, 801, 1000, 1200, 1201, 1300, 1400, 1500}
InflMomVals == {NaN, -10, 40, 41}
Bands == {<<600, 800>>, <<700, 700>>, <<1000, 1300>>, <<600, 1400>>, <<1300, 1500>>}
InflRow(y, m) == [YoY |-> y, MoM |-> m]
InflationInputs ==
    { [kind |-> "inflation", rows |-> Rep(InflRow(700, 0), k) \o <<InflRow(y, m)>>,
       target |-> (b[1] + b[2]) \div 2, band |-> b] :
        k \in 0..(MaxPrior + 1), y \in YoYVals, m \in InflMomVals, b \in Bands }

\* a table of monthly yields: row i has Date i, the 91-day yield is 10.00
\* in every row but the latest, the rows older than the latest six are all
\* inverted, those of `inv` among the five before the latest are inverted,
\* and the latest row has 91-day yield `dl` and spread `sp`.  All yields are
\* multiples of 0.25, so the float subtraction of the source is exact.
ShortLast == {750, 950, 1000, 1100, 1125, 1175, 1200, 1275, 1325}
LastSpreads == {-120, -100, -75, -50, -25, 0, 50}
RateRow(date, d91, spread) == [Date |-> date, d91 |-> d91, y10 |-> d91 + spread]
MkRates(n, inv, dl, sp) ==
    [i \in 1..n |->
        IF i = n THEN RateRow(i, dl, sp)
        ELSE IF n - i > 5 THEN RateRow(i, 1000, -100)
        ELSE IF (n - i) \in inv THEN RateRow(i, 1000, -50)
        ELSE RateRow(i, 1000, 100)]
Reverse(rows) == [i \in 1..Len(rows) |-> rows[Len(rows) + 1 - i]]
RateRowCounts == {1, 5, 6, 12} \cup (13..MaxRateRows)
RatesInputs ==
    { [kind |-> "rates", rows |-> IF o = "asc" THEN t ELSE Reverse(t)] :
        o \in {"asc", "desc"},
        t \in { MkRates(n, inv, dl, sp) :
                  n \in RateRowCounts, inv \in SUBSET (1..5),
                  dl \in ShortLast, sp \in LastSpreads } }

\* rates tables with blank cells: n rows with the latest spread -0.25 and
\* the spread 1.00 before it, in which `gap` blanks a yield of the latest
\* row, both, both in the two latest rows, both in the row before the
\* latest, or both in every row
GapRowCounts == {0, 1, 3, 6, 7}
Gaps == {"d91", "y10", "both", "two", "before", "all"}
Blanked(row, n, gap) ==
    [Date |-> row.Date,
     d91 |-> IF \/ gap = "all"
                \/ row.Date = n /\ gap \in {"d91", "both", "two"}
                \/ row.Date = n - 1 /\ gap \in {"two", "before"}
             THEN NaN ELSE row.d91,
     y10 |-> IF \/ gap = "all"
                \/ row.Date = n /\ gap \in {"y10", "both", "two"}
                \/ row.Date = n - 1 /\ gap \in {"two", "before"}
             THEN NaN ELSE row.y10]
GapRatesInputs ==
    { [kind |-> "rates",
       rows |-> IF o = "asc"
                THEN [i \in 1..n |-> Blanked(MkRates(n, {}, 1000, -25)[i], n, gap)]
                ELSE Reverse([i \in 1..n |-> Blanked(MkRates(n, {}, 1000, -25)[i], n, gap)])] :
        o \in {"asc", "desc"}, n \in GapRowCounts, gap \in Gaps }

\* a table of monthly USD/ZMW rates: 20.00 in every row (hist = "flat") or
\* 19.50 and 20.50 in turn (hist = "alt"), and `last` in the latest row
FxLast == {1900, 2000, 2050, 2100, 2200}
MkFx(n, hist, last) ==
    [i \in 1..n |->
        [Date |-> i,
         USDZMW |-> IF i = n THEN last
                    ELSE IF hist = "flat" THEN 2000
                    ELSE IF i % 2 = 1 THEN 1950 ELSE 2050]]
FxRowCounts == {1, 2, 3, 6, 11} \cup (12..MaxFxRows)
\* the reserves table passed with it: none, or monthly reserves of 3000 with
\* 2500 in the latest row ("drop"), or without a row for the latest FX date
\* ("short")
MkReserves(n, res) ==
    IF res = "none" THEN None
    ELSE Some([i \in 1..(IF res = "short" THEN n - 1 ELSE n) |->
                 [Date |-> i,
                  Gross_International_Reserves |->
                      IF i = n /\ res = "drop" THEN 2500 ELSE 3000]])
FxInputs ==
    { [kind |-> "fx", rows |-> IF o = "asc" THEN MkFx(n, hist, last)
                               ELSE Reverse(MkFx(n, hist, last)),
       reserves |-> MkReserves(n, res)] :
        o \in {"asc", "desc"}, n \in FxRowCounts, hist \in {"flat", "alt"},
        last \in FxLast, res \in {"none", "flat", "drop", "short"} }

\* a caller-built table with the FX_Stress_Index column fx_stress_state reads
StressVals == {NaN, -300, 50, 99, 100, 150, 199, 200, 250, 300}
FxStressInputs ==
    { [kind |-> "fx_stress", by |-> "caller",
       rows |-> Rep([FX_Stress_Index |-> 50], k) \o <<[FX_Stress_Index |-> v]>>] :
        k \in 0..MaxPrior, v \in StressVals }

\* a table of monthly reserves: `prev` in the row before the latest, 100.00
\* before that, `last` in the latest row
LiqPrev == {0, 10000}
LiqLast == {0, 9400, 9500, 9600, 10000, 10100}
LiquidityInputs ==
    { [kind |-> "liquidity",
       rows |-> [i \in 1..n |->
                   [Date |-> i,
                    Total_Reserves |-> IF i = n THEN last
                                       ELSE IF i = n - 1 THEN prev ELSE 10000]]] :
        n \in 1..(MaxPrior + 2), prev \in LiqPrev, last \in LiqLast }

\* a table of yields by tenor: four short and four long tenors per row; the
\* latest row has short tenors `sh` and long tenors `lg`
TenorSets ==
    { <<NaN, NaN, NaN, NaN>>, <<1000, 1000, 1000, 1000>>, <<1000, NaN, 1100, NaN>>,
      <<1050, 1050, 1050, 1050>>, <<1051, 1051, 1051, 1051>>,
      <<950, 950, 950, 950>>, <<949, 949, 949, 949>> }
CurveInputs ==
    { [kind |-> "curve",
       rows |-> [i \in 1..n |->
                   [Date |-> i,
                    short |-> IF i = n THEN sh ELSE <<1200, 1200, 1200, 1200>>,
                    long |-> IF i = n THEN lg ELSE <<1000, 1000, 1000, 1000>>]]] :
        n \in 1..(MaxPrior + 1), sh \in TenorSets,
        lg \in {<<NaN, NaN, NaN, NaN>>, <<1000, 1000, 1000, 1000>>} }

\* the T-bill tables: 12 + m monthly rows each; over the last m rows (those
\* the merge keeps) each of the weighted yield, the short-term balances and
\* the sales follows a profile
Profiles == {"flat", "rise", "fall", "spike"}
Prof(p, k, m) ==
    CASE p = "flat" -> 0
      [] p = "rise" -> 10 * k
      [] p = "fall" -> -10 * k
      [] p = "spike" -> IF k = m THEN 100 ELSE 0
MkBills(m, pr, ps) ==
    [i \in 1..(12 + m) |->
        [Date |-> i,
         ob91 |-> 2000 + (IF i > 12 THEN Prof(pr, i - 12, m) ELSE 0),
         ob182 |-> 2000,
         ob |-> 10000,
         Total_Sales |-> 500 + (IF i > 12 THEN Prof(ps, i - 12, m) ELSE 0)]]
MkBillRates(m, py) ==
    [i \in 1..(12 + m) |->
        [Date |-> i,
         wav |-> 1000 + (IF i > 12 THEN Prof(py, i - 12, m) ELSE 0)]]
FiscalRowCounts == {0, 1, 2, 3, 5} \cup (11..MaxFiscalRows)
FiscalInputs ==
    { [kind |-> "fiscal", bills |-> MkBills(m, pr, ps), rates |-> MkBillRates(m, py)] :
        m \in FiscalRowCounts, pr \in Profiles, ps \in Profiles, py \in Profiles }

\* the tables of the traffic lights: n monthly rows, `prev` in the row before
\* the latest, `last` in the latest row, given in either order
LightCounts == 1..(MaxPrior + 2)
TwoLast(n, i, old, prev, last) == IF i = n THEN last ELSE IF i = n - 1 THEN prev ELSE old
Ordered(o, t) == IF o = "asc" THEN t ELSE Reverse(t)

\* USD/ZMW rates: 25.00 -> 25.75 is a rise of exactly 3 %
ForexLast == {0, 2400, 2500, 2550, 2575, 2600}
ForexInputs ==
    { [kind |-> "forex",
       rows |-> Ordered(o, [i \in 1..n |->
                   [Date |-> i, USDZMW |-> TwoLast(n, i, 2500, prev, last)]])] :
        o \in {"asc", "desc"}, n \in LightCounts, prev \in {0, 2500}, last \in ForexLast }

\* annual inflation rates around the target 7 and the cut 10
InflationLast == {NaN, 650, 700, 701, 1000, 1001}
InflationLightInputs ==
    { [kind |-> "inflation_table", target_rate |-> 700,
       rows |-> Ordered(o, [i \in 1..n |->
                   [Month |-> i,
                    Inflation_Annual |-> TwoLast(n, i, 700, 800, last)]])] :
        o \in {"asc", "desc"}, n \in LightCounts, last \in InflationLast }

\* policy rates around the cuts 7 and 10
PolicyLast == {NaN, 650, 700, 701, 1000, 1001}
PolicyInputs ==
    { [kind |-> "lending_rates",
       rows |-> Ordered(o, [i \in 1..n |->
                   [Date |-> i,
                    BoZ_Policy_Rate |-> TwoLast(n, i, 700, 900, last)]])] :
        o \in {"asc", "desc"}, n \in LightCounts, last \in PolicyLast }

\* T-bill sales against an opening balance of 100.00 (or 0): sales of 20.00
\* and 40.00 are ratios of exactly 0.2 and 0.4
SalesLast == {1900, 2000, 3000, 3999, 4000, 4100}
BillsInputs ==
    { [kind |-> "bills",
       rows |-> Ordered(o, [i \in 1..n |->
                   [Date |-> i,
                    Total_Sales |-> TwoLast(n, i, 2000, prev, last),
                    Opening_Balance |-> opening]])] :
        o \in {"asc", "desc"}, n \in 0..(MaxPrior + 1), prev \in {0, 2000},
        last \in SalesLast, opening \in {0, 10000} }

\* gross reserves in millions around the cuts 4000 and 5000
ReservesLast == {NaN, 399900, 400000, 450000, 499900, 500000}
BozForexInputs ==
    { [kind |-> "boz_forex",
       rows |-> Ordered(o, [i \in 1..n |->
                   [Date |-> i,
                    Gross_International_Reserves |->
                        TwoLast(n, i, 450000, 450000, last)]])] :
        o \in {"asc", "desc"}, n \in LightCounts, last \in ReservesLast }

\* copper and oil prices around the cuts 8000, 7200 and 70, 77
CopperLast == {719900, 720000, 799900, 800000, 810000}
OilLast == {6900, 7000, 7001, 7700, 7701}
CommodityInputs ==
    { [kind |-> "commodity", copper_base |-> 800000, oil_base |-> 7000,
       rows |-> Ordered(o, [i \in 1..n |->
                   [Date |-> i,
                    Copper_US_Tonne |-> TwoLast(n, i, 800000, 800000, cu),
                    Oil_US_barrel |-> TwoLast(n, i, 7000, 7000, oil)]])] :
        o \in {"asc", "desc"}, n \in LightCounts, cu \in CopperLast, oil \in OilLast }

LightInputs ==
    ForexInputs \cup InflationLightInputs \cup PolicyInputs \cup BillsInputs
      \cup BozForexInputs \cup CommodityInputs

\* monthly inflation tables (inflation.csv): month m has annual rate
\* base + 0.10 m, so that a change over 12 rows and one over 12 calendar
\* months differ when a month is missing; `gap` removes the row of the month
\* `k` before the latest ("missing") or blanks its annual rate ("nan")
MaxSignalRows == 14
SeriesLens == {0, 1, 2, 12, 13} \cup (14..MaxSignalRows)
AnnualOf(base, m) == base + 10 * m
MonthlyOf(m) == 50 + 10 * (m % 3)
InflationCsvRow(base, m, blank) ==
    [Month |-> m,
     Total_Annual_Inflation_Rate |-> IF blank THEN NaN ELSE AnnualOf(base, m),
     Total_Monthly_Inflation_Rate |-> MonthlyOf(m)]
MkInflationCsv(n, base, gap, k) ==
    IF gap = "missing" /\ k < n
    THEN [i \in 1..(n - 1) |->
             InflationCsvRow(base, IF i < n - k THEN i ELSE i + 1, FALSE)]
    ELSE [i \in 1..n |-> InflationCsvRow(base, i, gap = "nan" /\ i = n - k)]
InflationCsvInputs ==
    { [kind |-> "inflation_csv", rows |-> MkInflationCsv(n, base, gap, k)] :
        n \in SeriesLens, base \in {500, 900}, gap \in {"none", "nan", "missing"},
        k \in {1, 6} }

\* daily / monthly FX tables (forex_rates.csv): 20.00 in every row but the
\* latest, which may be blank
WeightedLast == {NaN, 1950, 1975, 2000, 2050, 2075}
ForexCsvInputs ==
    { [kind |-> "forex_csv",
       rows |-> [i \in 1..n |->
                   [Date |-> i, Weighted_Rate |-> IF i = n THEN last ELSE 2000]]] :
        n \in 0..(MaxPrior + 2), last \in WeightedLast }

\* a Series passed to mom_change / yoy_change directly
SeriesInputs ==
    { [kind |-> "series", values |-> [i \in 1..n |-> AnnualOf(base, i)]] :
        n \in SeriesLens, base \in {500, 900} }

\* the arguments of trend_label: a defined value and thresholds low <= high
LabelValues == {500, 599, 600, 601, 999, 1000, 1001}
LabelThresholds == {<<600, 1000>>, <<600, 600>>, <<1000, 1000>>, <<601, 999>>}
LabelInputs ==
    { [kind |-> "label_args", value |-> v, thresholds |-> th] :
        v \in LabelValues, th \in LabelThresholds }

SignalInputs == InflationCsvInputs \cup ForexCsvInputs \cup SeriesInputs \cup LabelInputs

\* the arguments of macro_headline as macro_snapshot.py lines 104-115 build
\* them from the results of the eight traffic lights: every combination of
\* the three statuses, and an unknown status for one indicator at a time
GaugeStatuses == {"red", "amber", "green"}
StatusVectors ==
    [1..7 -> GaugeStatuses]
      \cup { [i \in 1..7 |-> IF i = j THEN "n/a" ELSE "green"] : j \in 1..7 }
HeadlineArgs(st, policy_value) ==
    [kind |-> "headline_args",
     fx_gauge |-> [status |-> st[1], mom_change |-> 125],
     inflation |-> [status |-> st[2], value |-> 1327, mom_change |-> -20],
     liquidity |-> [status |-> st[3], value |-> 981250, mom_change |-> 310],
     fiscal |-> [status |-> st[4], value |-> 35, mom_change |-> -450],
     external |-> [status |-> st[5], value |-> 452, mom_change |-> 75],
     commodity |-> [status_copper |-> st[6], value_copper |-> 810000, mom_copper |-> -260,
                    status_oil |-> st[7], value_oil |-> 7700, mom_oil |-> 540],
     policy_value |-> policy_value]
HeadlineInputs ==
    { HeadlineArgs(st, p) : st \in StatusVectors, p \in {None, Given(1450)} }

\* the arguments of generate_closing_summary: a month name and a mapping of
\* up to MaxGauges distinct keys, in every iteration order
MaxGauges == 3
GaugeKeys ==
    { <<"F", "X">>, <<"C", "P", "I">>, <<"T", "_", "b", "i", "l", "l", "s">>,
      <<"E", "x", "t", "_", "S", "e", "c", "_", "B", "o", "P">> }
GaugeItem(key, status) == [key |-> key, status |-> status, note |-> ""]
KeyOrders ==
    { ks \in UNION { [1..n -> GaugeKeys] : n \in 0..MaxGauges } :
        \A i, j \in 1..Len(ks) : ks[i] = ks[j] => i = j }
GaugeMappings ==
    UNION { { [i \in 1..Len(ks) |-> GaugeItem(ks[i], st[i])] :
                st \in [1..Len(ks) -> GaugeStatuses] } : ks \in KeyOrders }
SummaryInputs ==
    { [kind |-> "summary_args", snapshot_month |-> "March 2025", gauges |-> g] :
        g \in GaugeMappings }

CommentaryInputs == HeadlineInputs \cup SummaryInputs

\* the arguments of compute_confidence: a move around the cap of 2 points,
\* undefined or infinite; a YoY change and a volatility that may be omitted
ConfMomVals == {NaN, -Inf, -300, -200, -199, -25, 0, 25, 150, 200, 201, 300, Inf}
ConfYoYVals == {None, Given(NaN), Given(-100), Given(0), Given(100)}
ConfVolVals == {None, Given(NaN), Given(200), Given(201), Given(300)}
ConfidenceInputs ==
    { [kind |-> "confidence_args", mom_change |-> m, yoy_change |-> y, volatility |-> v] :
        m \in ConfMomVals, y \in ConfYoYVals, v \in ConfVolVals }

Inputs ==
    CurveInputs \cup FiscalInputs \cup FxMetricsInputs \cup InflationInputs \cup RatesInputs \cup FxInputs
      \cup GapRatesInputs
      \cup LiquidityInputs \cup FxStressInputs \cup LightInputs \cup SignalInputs
      \cup CommentaryInputs \cup ConfidenceInputs

NoResult == [err |-> "not called"]

---------------------------------------------------------------------------
(* The state machine: a caller holds a table and calls a function on it *)

NoCall == [call |-> "none"]

Init ==
    /\ df \in Inputs
    /\ call = "none"
    /\ ret = NoResult
    /\ first = NoCall

\* the caller keeps the arguments and the result of the first call it makes,
\* and notes once it has made a different call after it
Kept ==
    first' = IF first.call = "none"
               THEN [call |-> call', args |-> df, ret |-> ret', between |-> FALSE]
             ELSE IF first.call # call' \/ first.args # df
               THEN [first EXCEPT !.between = TRUE]
             ELSE first

FxState ==
    /\ df.kind = "fx_metrics"
    /\ call' = "fx_state"
    /\ ret' = fx_state(df.rows)
    /\ UNCHANGED df
    /\ Kept

InflationState ==
    /\ df.kind = "inflation"
    /\ call' = "inflation_state"
    /\ ret' = inflation_state(df.rows, df.target, df.band)
    /\ UNCHANGED df
    /\ Kept

ComputeRecessionProbability ==
    /\ df.kind = "rates"
    /\ call' = "compute_recession_probability"
    /\ ret' = compute_recession_probability(df.rows)
    /\ UNCHANGED df
    /\ Kept

ComputeFxMetrics ==
    /\ df.kind = "fx"
    /\ call' = "compute_fx_metrics"
    /\ ret' = [err |-> "none", rows |-> compute_fx_metrics(df.rows, 12)]
    /\ UNCHANGED df
    /\ Kept

ComputeFxStressComponents ==
    /\ df.kind = "fx"
    /\ call' = "compute_fx_stress_components"
    /\ ret' = [err |-> "none",
               rows |-> compute_fx_stress_components(df.rows, df.reserves, 12)]
    /\ UNCHANGED df
    /\ Kept

ComputeFxStressIndex ==
    /\ df.kind = "fx_components"
    /\ call' = "compute_fx_stress_index"
    /\ ret' = [err |-> "none", rows |-> compute_fx_stress_index(df.rows)]
    /\ UNCHANGED df
    /\ Kept

FxStressState ==
    /\ df.kind = "fx_stress"
    /\ call' = "fx_stress_state"
    /\ ret' = fx_stress_state(df.rows)
    /\ UNCHANGED df
    /\ Kept

\* the kind of table a table-building function returns
KindOf(f) ==
    CASE f = "compute_fx_metrics" -> "fx_metrics"
      [] f = "compute_fx_stress_components" -> "fx_components"
      [] f = "compute_fx_stress_index" -> "fx_stress"

\* the caller passes the table a function returned on to the next function
\* (df = compute_fx_metrics(df); fx_state(df))
PassOn ==
    /\ call \in {"compute_fx_metrics", "compute_fx_stress_components",
                 "compute_fx_stress_index"}
    /\ ret.err = "none"
    /\ df' = [kind |-> KindOf(call), by |-> call, rows |-> ret.rows]
    /\ call' = "none"
    /\ ret' = NoResult
    /\ UNCHANGED first

\* the commodity table the caller also holds (DATA['commodity']): two rows,
\* copper below 90% of its base and oil at its base
OtherTable ==
    [kind |-> "commodity", copper_base |-> 800000, oil_base |-> 7000,
     rows |-> <<[Date |-> 1, Copper_US_Tonne |-> 800000, Oil_US_barrel |-> 7000],
                [Date |-> 2, Copper_US_Tonne |-> 719900, Oil_US_barrel |-> 7000]>>]

\* after its first call the caller turns to the commodity table ...
TakeOther ==
    /\ call # "none"
    /\ call = first.call /\ df = first.args /\ ~first.between
    /\ df # OtherTable
    /\ df' = OtherTable
    /\ call' = "none"
    /\ ret' = NoResult
    /\ UNCHANGED first

\* ... and, having called a light on it, back to the table of its first call
TakeBack ==
    /\ df = OtherTable
    /\ call # "none"
    /\ first.call # "none" /\ first.args # OtherTable
    /\ df' = first.args
    /\ call' = "none"
    /\ ret' = NoResult
    /\ UNCHANGED first

AnalyzeYieldCurveStress ==
    /\ df.kind = "curve"
    /\ call' = "analyze_yield_curve_stress"
    /\ ret' = analyze_yield_curve_stress(df.rows)
    /\ UNCHANGED df
    /\ Kept

AnalyzeFiscalStress ==
    /\ df.kind = "fiscal"
    /\ call' = "analyze_fiscal_stress"
    /\ ret' = analyze_fiscal_stress(df.bills, df.rates)
    /\ UNCHANGED df
    /\ Kept

LiquidityTrafficLight ==
    /\ df.kind = "liquidity"
    /\ call' = "liquidity_traffic_light"
    /\ ret' = liquidity_traffic_light(df.rows)
    /\ UNCHANGED df
    /\ Kept

\* the table sorted in place, without the copy of line 6
FxTrafficLight_inplace ==
    /\ df.kind = "forex"
    /\ call' = "fx_traffic_light"
    /\ ret' = fx_traffic_light(df.rows)
    /\ df' = [df EXCEPT !.rows = SortByDate(df.rows)]
    /\ Kept
FxTrafficLight ==
    /\ df.kind = "forex"
    /\ call' = "fx_traffic_light"
    /\ ret' = fx_traffic_light(df.rows)
    /\ UNCHANGED df
    /\ Kept

InflationTrafficLight ==
    /\ df.kind = "inflation_table"
    /\ call' = "inflation_traffic_light"
    /\ ret' = inflation_traffic_light(df.rows, df.target_rate)
    /\ UNCHANGED df
    /\ Kept

PolicyTrafficLight ==
    /\ df.kind = "lending_rates"
    /\ call' = "policy_traffic_light"
    /\ ret' = policy_traffic_light(df.rows)
    /\ UNCHANGED df
    /\ Kept

FiscalTrafficLight ==
    /\ df.kind = "bills"
    /\ call' = "fiscal_traffic_light"
    /\ ret' = fiscal_traffic_light(df.rows)
    /\ UNCHANGED df
    /\ Kept

ExternalTrafficLight ==
    /\ df.kind = "boz_forex"
    /\ call' = "external_traffic_light"
    /\ ret' = external_traffic_light(df.rows)
    /\ UNCHANGED df
    /\ Kept

CopperTrafficLight ==
    /\ df.kind = "commodity"
    /\ call' = "copper_traffic_light"
    /\ ret' = copper_traffic_light(df.rows, df.copper_base)
    /\ UNCHANGED df
    /\ Kept

OilTrafficLight ==
    /\ df.kind = "commodity"
    /\ call' = "oil_traffic_light"
    /\ ret' = oil_traffic_light(df.rows, df.oil_base)
    /\ UNCHANGED df
    /\ Kept

MomChange ==
    /\ df.kind = "series"
    /\ call' = "mom_change"
    /\ ret' = mom_change(df.values)
    /\ UNCHANGED df
    /\ Kept

YoyChange ==
    /\ df.kind = "series"
    /\ call' = "yoy_change"
    /\ ret' = yoy_change(df.values)
    /\ UNCHANGED df
    /\ Kept

TrendLabel ==
    /\ df.kind = "label_args"
    /\ call' = "trend_label"
    /\ ret' = [err |-> "none", label |-> trend_label(df.value, df.thresholds)]
    /\ UNCHANGED df
    /\ Kept

InflationSignal ==
    /\ df.kind = "inflation_csv"
    /\ call' = "inflation_signal"
    /\ ret' = inflation_signal(df.rows)
    /\ UNCHANGED df
    /\ Kept

FxSignal ==
    /\ df.kind = "forex_csv"
    /\ call' = "fx_signal"
    /\ ret' = fx_signal(df.rows)
    /\ UNCHANGED df
    /\ Kept

ClassifyPolicyStance ==
    /\ df.kind = "rates"
    /\ call' = "classify_policy_stance"
    /\ ret' = classify_policy_stance(df.rows)
    /\ UNCHANGED df
    /\ Kept

MacroHeadline ==
    /\ df.kind = "headline_args"
    /\ call' = "macro_headline"
    /\ ret' = macro_headline(df)
    /\ UNCHANGED df
    /\ Kept

GenerateClosingSummary ==
    /\ df.kind = "summary_args"
    /\ call' = "generate_closing_summary"
    /\ ret' = generate_closing_summary(df.snapshot_month, df.gauges)
    /\ UNCHANGED df
    /\ Kept

ComputeConfidence ==
    /\ df.kind = "confidence_args"
    /\ call' = "compute_confidence"
    /\ ret' = compute_confidence(df.mom_change, df.yoy_change, df.volatility)
    /\ UNCHANGED df
    /\ Kept

GetLatestValidTermSpread ==
    /\ df.kind = "rates"
    /\ call' = "get_latest_valid_term_spread"
    /\ ret' = get_latest_valid_term_spread(df.rows)
    /\ UNCHANGED df
    /\ Kept

Next ==
    \/ FxState
    \/ InflationState
    \/ ComputeRecessionProbability
    \/ ComputeFxMetrics
    \/ ComputeFxStressComponents
    \/ ComputeFxStressIndex
    \/ FxStressState
    \/ PassOn
    \/ TakeOther
    \/ TakeBack
    \/ LiquidityTrafficLight
    \/ AnalyzeYieldCurveStress
    \/ AnalyzeFiscalStress
    \/ FxTrafficLight
    \/ InflationTrafficLight
    \/ PolicyTrafficLight
    \/ FiscalTrafficLight
    \/ ExternalTrafficLight
    \/ CopperTrafficLight
    \/ OilTrafficLight
    \/ MomChange
    \/ YoyChange
    \/ TrendLabel
    \/ InflationSignal
    \/ FxSignal
    \/ ClassifyPolicyStance
    \/ MacroHeadline
    \/ GenerateClosingSummary
    \/ ComputeConfidence
    \/ GetLatestValidTermSpread

Spec == Init /\ [][Next]_vars

Returned(f) == call = f /\ ret.err = "none"

---------------------------------------------------------------------------
(* C6 *)

\* C6: for every latest row (z, m) fx_state returns red with confidence 85 iff
\* z > 2 or (z > 1.5 and m > 2); otherwise amber with confidence 70 iff z > 1
\* or m > 1; otherwise green with confidence 90; z = 2.3, m = 2.5 gives red/85.
C6_FxStateBands ==
    Returned("fx_state") =>
        LET z == Last(df.rows).Z_Score
            m == Last(df.rows).FX_MoM
            red == Gt(z, 200) \/ (Gt(z, 150) /\ Gt(m, 200))
            amber == ~red /\ (Gt(z, 100) \/ Gt(m, 100))
        IN  /\ (ret.status = "red" /\ ret.confidence = 85) <=> red
            /\ (ret.status = "amber" /\ ret.confidence = 70) <=> amber
            /\ (ret.status = "green" /\ ret.confidence = 90) <=> (~red /\ ~amber)
            /\ (z = 230 /\ m = 250) => (ret.status = "red" /\ ret.confidence = 85)

C6_Witness ==
    /\ Returned("fx_state")
    /\ Last(df.rows).Z_Score = 230
    /\ Last(df.rows).FX_MoM = 250
    /\ ret.status = "red"
    /\ ret.confidence = 85

---------------------------------------------------------------------------
(* C7, C8 *)

WithinNote == "Inflation is within the central bank target range"
BelowNote == "Inflation is below target with easing price pressures"

\* C7: with the default band [6,8], for every defined latest (y, m)
\* inflation_state returns red iff y > 12 or (m > 0.4 and y > 8); otherwise
\* amber iff 8 < y <= 12; otherwise green with the within-target note iff
\* 6 <= y <= 8; otherwise (y < 6) green with the below-target note; exactly
\* one of the four outcomes applies.
C7_InflationDefaultBands ==
    (Returned("inflation_state") /\ df.band = <<600, 800>>
        /\ Last(df.rows).YoY # NaN /\ Last(df.rows).MoM # NaN) =>
        LET y == Last(df.rows).YoY
            m == Last(df.rows).MoM
            red == y > 1200 \/ (m > 40 /\ y > 800)
            amber == ~red /\ 800 < y /\ y <= 1200
            within == ~red /\ ~amber /\ 600 <= y /\ y <= 800
            below == ~red /\ ~amber /\ ~within
            isRed == ret.status = "red"
            isAmber == ret.status = "amber"
            isWithin == ret.status = "green" /\ ret.commentary = WithinNote
            isBelow == ret.status = "green" /\ ret.commentary = BelowNote
        IN  /\ isRed <=> red
            /\ isAmber <=> amber
            /\ isWithin <=> within
            /\ isBelow <=> below
            /\ below <=> y < 600
            /\ Cardinality({o \in {"red", "amber", "within", "below"} :
                   \/ o = "red" /\ isRed
                   \/ o = "amber" /\ isAmber
                   \/ o = "within" /\ isWithin
                   \/ o = "below" /\ isBelow}) = 1

C7_Witness ==
    /\ Returned("inflation_state")
    /\ df.band = <<600, 800>>
    /\ Last(df.rows).YoY = 600
    /\ Last(df.rows).MoM = 41
    /\ ret.status = "green"
    /\ ret.commentary = WithinNote

InBandInput ==
    /\ Returned("inflation_state")
    /\ df.band[1] <= df.band[2]
    /\ Last(df.rows).YoY # NaN
    /\ df.band[1] <= Last(df.rows).YoY
    /\ Last(df.rows).YoY <= df.band[2]

\* C8 as stated: for every band (lo, hi) with lo <= hi and every MoM, a YoY
\* within the band (bounds included) is classified green.
C8_InBandIsGreen_Original ==
    InBandInput => ret.status = "green"

\* C8 amended: for every band (lo, hi) with lo <= hi and every MoM, a YoY
\* within the band (bounds included) that does not exceed 12 is classified
\* green, and a YoY within the band that exceeds 12 is classified red.
C8_InBandIsGreenUpTo12 ==
    InBandInput =>
        /\ Last(df.rows).YoY <= 1200 => ret.status = "green"
        /\ Last(df.rows).YoY > 1200 => ret.status = "red"

C8_Witness ==
    /\ InBandInput
    /\ df.band = <<1000, 1300>>
    /\ Last(df.rows).YoY = 1000
    /\ Last(df.rows).MoM = 41
    /\ ret.status = "green"

---------------------------------------------------------------------------
(* C1, C9, C10 *)

\* the rows of the caller's table by age: the number of rows dated later
Newer(r) == Cardinality({i \in 1..Len(df.rows) : df.rows[i].Date > r.Date})
RowOfAge(k) == CHOOSE r \in {df.rows[i] : i \in 1..Len(df.rows)} : Newer(r) = k
RawSpread(r) == IF r.y10 = NaN \/ r.d91 = NaN THEN NaN ELSE r.y10 - r.d91
InvertedInLastSix ==
    Cardinality({i \in 1..Len(df.rows) :
        Newer(df.rows[i]) < 6 /\ RawSpread(df.rows[i]) < 0})
YoYOfShortRate ==
    IF Len(df.rows) < 13 THEN NaN
    ELSE ((RowOfAge(0).d91 - RowOfAge(12).d91) * 10000) \div RowOfAge(12).d91

\* C1 as stated: on a rates table of only 5 monthly rows
\* compute_recession_probability does not raise and returns a record with a
\* defined band and a commentary.
C1_FiveRowsDegrade ==
    (call = "compute_recession_probability" /\ Len(df.rows) = 5) =>
        /\ ret.err = "none"
        /\ ret.band \in {"Low", "Moderate", "Elevated", "High"}

\* C9: probability = 100 x (0.4 depth + 0.4 duration + 0.2 policy) with depth
\* 1.0 / 0.7 / 0.4 / 0 for a latest spread < -1.0 / < -0.5 / < 0 / else,
\* duration 1.0 / 0.6 / 0 for >= 4 / >= 2 / fewer negative spreads among the
\* last 6 rows, policy 1.0 / 0.5 / 0 for a 12-period change of the 91-day
\* yield > 30 / > 15 / else; spread -1.2, 5 inverted months and a short-rate
\* YoY of 10% give probability 80.
C9_RecessionProbability ==
    Returned("compute_recession_probability") =>
        LET s == RawSpread(RowOfAge(0))
            n == InvertedInLastSix
            y == YoYOfShortRate
            depth == IF s < -100 THEN 100 ELSE IF s < -50 THEN 70
                     ELSE IF s < 0 THEN 40 ELSE 0
            duration == IF n >= 4 THEN 100 ELSE IF n >= 2 THEN 60 ELSE 0
            policy == IF y # NaN /\ y > 3000 THEN 100
                      ELSE IF y # NaN /\ y > 1500 THEN 50 ELSE 0
        IN  /\ ret.probability = 40 * depth + 40 * duration + 20 * policy
            /\ ret.latest_spread = s
            /\ ret.inversion_months = n
            /\ (s = -120 /\ n = 5 /\ y = 1000) =>
                   (depth = 100 /\ duration = 100 /\ policy = 0
                      /\ ret.probability = 8000)

C9_Witness ==
    /\ Returned("compute_recession_probability")
    /\ Len(df.rows) >= 13
    /\ \E i \in 1..Len(df.rows) : Newer(df.rows[i]) >= 6 /\ RawSpread(df.rows[i]) < 0
    /\ RawSpread(RowOfAge(0)) = -120
    /\ InvertedInLastSix = 5
    /\ YoYOfShortRate = 1000
    /\ ret.probability = 8000
    /\ ret.band = "High"

\* C10: the returned band is High iff probability >= 60, Elevated iff
\* 40 <= probability < 60, Moderate iff 20 <= probability < 40, Low iff
\* probability < 20, and the risk word of the commentary is the lower-cased
\* returned band.
C10_RecessionBand ==
    Returned("compute_recession_probability") =>
        LET p == ret.probability
        IN  /\ ret.band = "High" <=> p >= 6000
            /\ ret.band = "Elevated" <=> (4000 <= p /\ p < 6000)
            /\ ret.band = "Moderate" <=> (2000 <= p /\ p < 4000)
            /\ ret.band = "Low" <=> p < 2000
            /\ ret.commentary.risk =
                 (CASE ret.band = "High" -> "high"
                    [] ret.band = "Elevated" -> "elevated"
                    [] ret.band = "Moderate" -> "moderate"
                    [] ret.band = "Low" -> "low")

C10_Witness ==
    /\ Returned("compute_recession_probability")
    /\ ret.probability = 6000
    /\ ret.band = "High"
    /\ ret.commentary.risk = "high"

---------------------------------------------------------------------------
(* C2, C3, C4, C5 *)

Defined(x) == x # NaN
Magnitude(x) == IF x < 0 THEN -x ELSE x

\* C2 as stated: label_stress, label_curve and the band ladder of
\* fx_stress_state give an undefined (NaN) input an outcome that is none of
\* their ordinary bands.
C2_NaNIsNoClassification ==
    /\ Returned("analyze_fiscal_stress") =>
         \A k \in 1..Len(ret.rows) :
            ret.rows[k].Fiscal_Stress_Index = NaN =>
               ret.rows[k].Fiscal_Regime \notin
                  {"Accommodative", "Neutral", "Tightening", "Stressed", "Critical"}
    /\ Returned("analyze_yield_curve_stress") =>
         \A k \in 1..Len(ret.rows) :
            ret.rows[k].Yield_Curve_Slope = NaN =>
               ret.rows[k].Yield_Curve_Regime \notin {"Inverted", "Flat", "Normal"}
    /\ (Returned("fx_stress_state") /\ Last(df.rows).FX_Stress_Index = NaN) =>
         ret.status \notin {"green", "amber", "red"}

\* C3 as stated: when the Z_Score that compute_fx_metrics leaves undefined
\* reaches fx_state, or the previous reserves value of
\* liquidity_traffic_light is 0, nothing raises and the status returned is
\* a data-unavailable outcome, not green / amber / red.
C3_UndefinedMetricDegrades ==
    /\ (call = "fx_state" /\ df.by = "compute_fx_metrics"
          /\ Last(df.rows).Z_Score = NaN) =>
         (ret.err = "none" /\ ret.status \notin {"green", "amber", "red"})
    /\ (call = "liquidity_traffic_light" /\ Len(df.rows) >= 2
          /\ RowOfAge(1).Total_Reserves = 0) =>
         (ret.err = "none" /\ ret.status \notin {"green", "amber", "red"})

\* C4 as stated: every defined component that enters the weighted
\* combination of a composite index (the three z-scores of the Fiscal Stress
\* Index, the four of the FX Stress Index) has magnitude at most 3.
C4_ComponentsWithin3 ==
    /\ Returned("analyze_fiscal_stress") =>
         \A k \in 1..Len(ret.rows) :
            \A z \in {ret.rows[k].z_yield, ret.rows[k].z_rollover,
                      ret.rows[k].z_issuance} :
               Defined(z) => Magnitude(z) <= 300
    /\ Returned("compute_fx_stress_index") =>
         \A k \in 1..Len(df.rows) :
            \A z \in {df.rows[k].Z_Price, df.rows[k].Z_Vol,
                      df.rows[k].Z_MoM, df.rows[k].Z_Reserves} :
               Defined(z) => Magnitude(z) <= 300

\* the latest 12 rates of the caller's FX table are all equal (zero std)
ConstantLastWindow ==
    /\ Len(df.rows) >= 12
    /\ \A i, j \in 1..Len(df.rows) :
          (Newer(df.rows[i]) < 12 /\ Newer(df.rows[j]) < 12) =>
             df.rows[i].USDZMW = df.rows[j].USDZMW

\* C5 as stated: every standardization yields a defined z-score when the
\* standard deviation of its input is zero: Z_Score of compute_fx_metrics
\* on a constant window, the z-scores of analyze_fiscal_stress on two or
\* more rows, and Z_Price of compute_fx_stress_components from the second
\* row on.
C5_ZeroStdGivesDefinedZ ==
    /\ (Returned("compute_fx_metrics") /\ ConstantLastWindow) =>
         Defined(Last(ret.rows).Z_Score)
    /\ (Returned("analyze_fiscal_stress") /\ Len(ret.rows) >= 2) =>
         \A k \in 1..Len(ret.rows) :
            /\ Defined(ret.rows[k].z_yield)
            /\ Defined(ret.rows[k].z_rollover)
            /\ Defined(ret.rows[k].z_issuance)
    /\ Returned("compute_fx_stress_components") =>
         \A k \in 2..Len(ret.rows) : Defined(ret.rows[k].Z_Price)

---------------------------------------------------------------------------
(* C11, C12 *)

\* x is the mean of a, b and c to hundredths (NaN when one of them is NaN)
IsMeanOf3(x, a, b, c) ==
    IF a = NaN \/ b = NaN \/ c = NaN THEN x = NaN
    ELSE x # NaN /\ Magnitude(3 * x - (a + b + c)) < 3

\* C11 as stated: in every row analyze_fiscal_stress returns, the three
\* z-scores lie within [-3, 3], Fiscal_Stress_Index is their unweighted mean,
\* and Fiscal_Regime is Accommodative iff index <= -0.5, Neutral iff
\* -0.5 < index <= 0.5, Tightening iff 0.5 < index <= 1.5, Stressed iff
\* 1.5 < index <= 2.5, and Critical iff index > 2.5.
C11_FiscalIndexAndRegime ==
    Returned("analyze_fiscal_stress") =>
        \A k \in 1..Len(ret.rows) :
            LET r == ret.rows[k]
                x == r.Fiscal_Stress_Index
            IN  /\ \A z \in {r.z_yield, r.z_rollover, r.z_issuance} :
                      Defined(z) => Magnitude(z) <= 300
                /\ IsMeanOf3(x, r.z_yield, r.z_rollover, r.z_issuance)
                /\ (r.Fiscal_Regime = "Accommodative") <=> Le(x, -50)
                /\ (r.Fiscal_Regime = "Neutral") <=> (Gt(x, -50) /\ Le(x, 50))
                /\ (r.Fiscal_Regime = "Tightening") <=> (Gt(x, 50) /\ Le(x, 150))
                /\ (r.Fiscal_Regime = "Stressed") <=> (Gt(x, 150) /\ Le(x, 250))
                /\ (r.Fiscal_Regime = "Critical") <=> Gt(x, 250)

\* C12: the commentary of analyze_fiscal_stress names the regime of the
\* latest row of the table it returns, and carries the heightened-
\* vulnerability template iff that regime is Stressed or Critical, the
\* close-monitoring template iff it is Tightening, and the broadly-
\* supportive template iff it is Accommodative or Neutral.
C12_FiscalCommentaryByLatestRegime ==
    Returned("analyze_fiscal_stress") =>
        LET regime == Last(ret.rows).Fiscal_Regime
            text == ret.commentary
        IN  /\ text.regime = regime
            /\ text.index = Last(ret.rows).Fiscal_Stress_Index
            /\ (text.template = "heightened vulnerability")
                  <=> (regime \in {"Stressed", "Critical"})
            /\ (text.template = "close monitoring") <=> (regime = "Tightening")
            /\ (text.template = "broadly supportive")
                  <=> (regime \in {"Accommodative", "Neutral"})

\* a Stressed latest row (index between 1.5 and 2.5) after calmer rows
C12_Witness ==
    /\ Returned("analyze_fiscal_stress")
    /\ Len(ret.rows) >= 2
    /\ Last(ret.rows).Fiscal_Regime = "Stressed"
    /\ Gt(Last(ret.rows).Fiscal_Stress_Index, 150)
    /\ ret.rows[1].Fiscal_Regime \in {"Accommodative", "Neutral"}
    /\ ret.commentary.template = "heightened vulnerability"

---------------------------------------------------------------------------
(* C13, C14 *)

\* the caller's reserves table has no observation dated `date` (or there is
\* no reserves table)
ReservesAbsentOn(date) ==
    \/ ~df.reserves.given
    \/ \A j \in 1..Len(df.reserves.rows) : df.reserves.rows[j].Date # date

\* x is 0.35 zp + 0.25 zv + 0.25 zm + 0.15 zr clipped to [-3, 3], to hundredths
IsClippedWeightedSum(x, zp, zv, zm, zr) ==
    IF zp = NaN \/ zv = NaN \/ zm = NaN \/ zr = NaN THEN x = NaN
    ELSE LET t == 35 * zp + 25 * zv + 25 * zm + 15 * zr
         IN  /\ x # NaN
             /\ t >= 30000 => x = 300
             /\ t <= -30000 => x = -300
             /\ (t > -30000 /\ t < 30000) => Magnitude(100 * x - t) < 100

\* C13 as stated: FX_Stress_Index of every row is 0.35 Z_Price + 0.25 Z_Vol
\* + 0.25 Z_MoM + 0.15 Z_Reserves clipped to [-3, 3], and Z_Reserves is
\* exactly 0 in every row for which reserves data is absent (no reserves
\* table, or no reserves observation on the row's date).
C13_FxStressIndexWeights ==
    /\ Returned("compute_fx_stress_index") =>
         /\ Len(ret.rows) = Len(df.rows)
         /\ \A i \in 1..Len(ret.rows) :
               IsClippedWeightedSum(ret.rows[i].FX_Stress_Index,
                                    df.rows[i].Z_Price, df.rows[i].Z_Vol,
                                    df.rows[i].Z_MoM, df.rows[i].Z_Reserves)
    /\ Returned("compute_fx_stress_components") =>
         \A i \in 1..Len(ret.rows) :
            ReservesAbsentOn(ret.rows[i].Date) => ret.rows[i].Z_Reserves = 0

\* C14 as stated: fx_stress_state returns red / "Severe FX Stress" iff the
\* latest FX_Stress_Index v is >= 2, amber / "Elevated FX Pressure" iff
\* 1 <= v < 2, and green / "FX Stable" iff v < 1.
C14_FxStressStateBands ==
    Returned("fx_stress_state") =>
        LET v == Last(df.rows).FX_Stress_Index
        IN  /\ (ret.status = "red") <=> Ge(v, 200)
            /\ (ret.status = "amber") <=> (Ge(v, 100) /\ Lt(v, 200))
            /\ (ret.status = "green") <=> Lt(v, 100)
            /\ (ret.label = "Severe FX Stress") <=> (ret.status = "red")
            /\ (ret.label = "Elevated FX Pressure") <=> (ret.status = "amber")
            /\ (ret.label = "FX Stable") <=> (ret.status = "green")

---------------------------------------------------------------------------
(* C15 *)

\* function f returned and its input sits on a cut point: the status is band
TieIs(f, at_cut, band) == (Returned(f) /\ at_cut) => ret.status = band

\* the sales / opening balance ratio of the latest bills row is exactly q / 10
SalesRatioIs(q) ==
    /\ Len(df.rows) >= 1
    /\ RowOfAge(0).Opening_Balance # 0
    /\ 10 * RowOfAge(0).Total_Sales = q * RowOfAge(0).Opening_Balance

\* the five traffic lights whose cut points belong to the less severe band
TiesOfClosedLights ==
    /\ TieIs("inflation_traffic_light", ret.last_value = df.target_rate, "green")
    /\ TieIs("inflation_traffic_light", ret.last_value = df.target_rate + H(3), "amber")
    /\ TieIs("policy_traffic_light", ret.last_value = H(7), "green")
    /\ TieIs("policy_traffic_light", ret.last_value = H(10), "amber")
    /\ TieIs("external_traffic_light",
             RowOfAge(0).Gross_International_Reserves = H(5000), "green")
    /\ TieIs("external_traffic_light",
             RowOfAge(0).Gross_International_Reserves = H(4000), "amber")
    /\ TieIs("copper_traffic_light", ret.last_value = df.copper_base, "green")
    /\ TieIs("copper_traffic_light", 10 * ret.last_value = 9 * df.copper_base, "amber")
    /\ TieIs("oil_traffic_light", ret.last_value = df.oil_base, "green")
    /\ TieIs("oil_traffic_light", 10 * ret.last_value = 11 * df.oil_base, "amber")

\* C15 as stated: in every traffic light (fx, inflation, liquidity, policy,
\* fiscal, external, copper, oil) an input exactly on a cut point between two
\* bands gets the less severe of the two bands.
C15_TiesToLessSevere_Original ==
    /\ TiesOfClosedLights
    /\ TieIs("fx_traffic_light", ret.mom_change = 0, "green")
    /\ TieIs("fx_traffic_light", ret.mom_change = H(3), "amber")
    /\ TieIs("liquidity_traffic_light", ret.mom_change = 0, "green")
    /\ TieIs("liquidity_traffic_light", ret.mom_change = H(-5), "amber")
    /\ TieIs("fiscal_traffic_light", SalesRatioIs(2), "green")
    /\ TieIs("fiscal_traffic_light", SalesRatioIs(4), "amber")

\* C15, amended: in the inflation, policy, external, copper and oil traffic
\* lights an input exactly on a cut point gets the less severe of the two
\* bands; in the fx, liquidity and fiscal traffic lights it gets the more
\* severe one (fx change 0 % amber, 3 % red; reserves change 0 % amber, -5 %
\* red; sales ratio 0.2 amber, 0.4 red).
C15_TiesByLight ==
    /\ TiesOfClosedLights
    /\ TieIs("fx_traffic_light", ret.mom_change = 0, "amber")
    /\ TieIs("fx_traffic_light", ret.mom_change = H(3), "red")
    /\ TieIs("liquidity_traffic_light", ret.mom_change = 0, "amber")
    /\ TieIs("liquidity_traffic_light", ret.mom_change = H(-5), "red")
    /\ TieIs("fiscal_traffic_light", SalesRatioIs(2), "amber")
    /\ TieIs("fiscal_traffic_light", SalesRatioIs(4), "red")

\* the rate rose from 25.00 to 25.75, exactly 3 %, and the light is red
C15_Witness ==
    /\ Returned("fx_traffic_light")
    /\ RowOfAge(1).USDZMW = 2500
    /\ RowOfAge(0).USDZMW = 2575
    /\ ret.mom_change = H(3)
    /\ ret.status = "red"

---------------------------------------------------------------------------
(* C16, C17, C18 *)

\* the rows of the caller's table that hold an observation of column `name`,
\* and the one with k such rows after it
Observed(name) == {i \in 1..Len(df.rows) : df.rows[i][name] # NaN}
FromEnd(name, k) ==
    CHOOSE i \in Observed(name) : Cardinality({j \in Observed(name) : j > i}) = k
Obs(name, k) == df.rows[FromEnd(name, k)][name]

\* C16 as stated: mom_change on fewer than 2 observations and yoy_change on
\* fewer than 13 return NaN without raising, and inflation_signal and
\* fx_signal return with that metric NaN.
C16_ShortSeriesGiveNaN ==
    /\ (call = "mom_change" /\ Len(df.values) < 2) => ret = Value(NaN)
    /\ (call = "yoy_change" /\ Len(df.values) < 13) => ret = Value(NaN)
    /\ (call = "inflation_signal"
          /\ Cardinality(Observed("Total_Annual_Inflation_Rate")) < 13) =>
         (ret.err = "none" /\ ret.yoy = NaN)
    /\ (call = "inflation_signal"
          /\ Cardinality(Observed("Total_Monthly_Inflation_Rate")) < 2) =>
         (ret.err = "none" /\ ret.mom = NaN)
    /\ (call = "fx_signal" /\ Cardinality(Observed("Weighted_Rate")) < 2) =>
         (ret.err = "none" /\ ret.mom = NaN)

\* C17: on a series of at least 13 observations mom_change returns the last
\* value minus the one before it and yoy_change the last value minus the one
\* 12 positions earlier; in inflation_signal and fx_signal the positions are
\* those of the observations left by dropna, whatever months they carry.
C17_PositionalLags ==
    /\ (call = "mom_change" /\ Len(df.values) >= 13) =>
         ret = Value(df.values[Len(df.values)] - df.values[Len(df.values) - 1])
    /\ (call = "yoy_change" /\ Len(df.values) >= 13) =>
         ret = Value(df.values[Len(df.values)] - df.values[Len(df.values) - 12])
    /\ (call = "inflation_signal"
          /\ Cardinality(Observed("Total_Annual_Inflation_Rate")) >= 13) =>
         /\ ret.err = "none"
         /\ ret.yoy = Obs("Total_Annual_Inflation_Rate", 0)
                        - Obs("Total_Annual_Inflation_Rate", 12)
         /\ ret.mom = Obs("Total_Monthly_Inflation_Rate", 0)
                        - Obs("Total_Monthly_Inflation_Rate", 1)
    /\ (call = "fx_signal" /\ Cardinality(Observed("Weighted_Rate")) >= 2) =>
         /\ ret.err = "none"
         /\ ret.mom = Obs("Weighted_Rate", 0) - Obs("Weighted_Rate", 1)

\* a month is missing among the last twelve: the observation 12 rows back
\* is 13 calendar months back, and the change returned is the one over 13
\* months (1.30), not over 12 (1.20)
C17_Witness ==
    /\ Returned("inflation_signal")
    /\ df.rows[FromEnd("Total_Annual_Inflation_Rate", 12)].Month
         = df.rows[FromEnd("Total_Annual_Inflation_Rate", 0)].Month - 13
    /\ ret.yoy = 130

\* C18: trend_label(value, (low, high)) is "low" iff value < low, "moderate"
\* iff low <= value < high, and "high" iff value >= high, for low <= high.
C18_TrendLabel ==
    Returned("trend_label") =>
        LET low == df.thresholds[1]
            high == df.thresholds[2]
        IN  /\ (ret.label = "low") <=> (df.value < low)
            /\ (ret.label = "moderate") <=> (low <= df.value /\ df.value < high)
            /\ (ret.label = "high") <=> (df.value >= high)

\* a value equal to low (below high) is "moderate"
C18_Witness ==
    /\ Returned("trend_label")
    /\ df.value = df.thresholds[1]
    /\ df.thresholds[1] < df.thresholds[2]
    /\ ret.label = "moderate"

---------------------------------------------------------------------------
(* C19 *)

\* the orders of the bands
Sev3(status) == CASE status = "green" -> 0 [] status = "amber" -> 1 [] status = "red" -> 2
Sev5(regime) ==
    CASE regime = "Accommodative" -> 0 [] regime = "Neutral" -> 1
      [] regime = "Tightening" -> 2 [] regime = "Stressed" -> 3
      [] regime = "Critical" -> 4
Sev4(band) ==
    CASE band = "Low" -> 0 [] band = "Moderate" -> 1
      [] band = "Elevated" -> 2 [] band = "High" -> 3

\* v2 is a defined value no lower than the defined value v
Raises(v, v2) == Defined(v) /\ Defined(v2) /\ v2 >= v

\* the caller's table with field `name` of its latest (last) row set to v
WithLatest(name, v) ==
    [df.rows EXCEPT ![Len(df.rows)] = [@ EXCEPT ![name] = v]]

\* the values an index is raised to
RaisedIndexVals == {-300, -51, -50, -49, 50, 51, 99, 100, 150, 151, 199, 200, 250, 251, 300}
\* the short-rate YoY changes a rate is raised to
RaisedYoYVals == {-2500, 0, 1499, 1500, 1501, 2999, 3000, 3001, 6000}

\* the band compute_recession_probability assigns to the three stress metrics
RecessionBandOf(latest_spread, inversion_months, short_rate_yoy) ==
    RiskBand(Probability(DepthScore(latest_spread), DurationScore(inversion_months),
                         PolicyScore(short_rate_yoy)))

\* C19: raising one stress input with the others held fixed never lowers the
\* severity of the band: Z_Score or FX_MoM in fx_state, YoY or MoM in
\* inflation_state, the index in fx_stress_state and label_stress, and the
\* inversion depth (a lower spread), the inverted-month count or the
\* short-rate YoY in the recession band.
C19_SeverityIsMonotone ==
    /\ Returned("fx_state") =>
         /\ \A z2 \in ZVals : Raises(Last(df.rows).Z_Score, z2) =>
               Sev3(fx_state(WithLatest("Z_Score", z2)).status) >= Sev3(ret.status)
         /\ \A m2 \in FxMomVals : Raises(Last(df.rows).FX_MoM, m2) =>
               Sev3(fx_state(WithLatest("FX_MoM", m2)).status) >= Sev3(ret.status)
    /\ Returned("inflation_state") =>
         /\ \A y2 \in YoYVals : Raises(Last(df.rows).YoY, y2) =>
               Sev3(inflation_state(WithLatest("YoY", y2), df.target, df.band).status)
                  >= Sev3(ret.status)
         /\ \A m2 \in InflMomVals : Raises(Last(df.rows).MoM, m2) =>
               Sev3(inflation_state(WithLatest("MoM", m2), df.target, df.band).status)
                  >= Sev3(ret.status)
    /\ Returned("fx_stress_state") =>
         \A v2 \in RaisedIndexVals : Raises(Last(df.rows).FX_Stress_Index, v2) =>
            Sev3(fx_stress_state(WithLatest("FX_Stress_Index", v2)).status)
               >= Sev3(ret.status)
    /\ Returned("analyze_fiscal_stress") =>
         \A k \in 1..Len(ret.rows) : \A x2 \in RaisedIndexVals :
            Raises(ret.rows[k].Fiscal_Stress_Index, x2) =>
               Sev5(label_stress(x2)) >= Sev5(ret.rows[k].Fiscal_Regime)
    /\ Returned("compute_recession_probability") =>
         /\ ret.band = RecessionBandOf(ret.latest_spread, ret.inversion_months,
                                       YoYOfShortRate)
         /\ \A s2 \in LastSpreads : Raises(s2, ret.latest_spread) =>
               Sev4(RecessionBandOf(s2, ret.inversion_months, YoYOfShortRate))
                  >= Sev4(ret.band)
         /\ \A n2 \in 0..6 : Raises(ret.inversion_months, n2) =>
               Sev4(RecessionBandOf(ret.latest_spread, n2, YoYOfShortRate))
                  >= Sev4(ret.band)
         /\ \A y2 \in RaisedYoYVals : Raises(YoYOfShortRate, y2) =>
               Sev4(RecessionBandOf(ret.latest_spread, ret.inversion_months, y2))
                  >= Sev4(ret.band)

\* fx_stress_state returned green, and a higher index is amber and a still
\* higher one red
C19_Witness ==
    /\ Returned("fx_stress_state")
    /\ Defined(Last(df.rows).FX_Stress_Index)
    /\ ret.status = "green"
    /\ \E v2, v3 \in RaisedIndexVals :
          /\ Last(df.rows).FX_Stress_Index < v2 /\ v2 < v3
          /\ fx_stress_state(WithLatest("FX_Stress_Index", v2)).status = "amber"
          /\ fx_stress_state(WithLatest("FX_Stress_Index", v3)).status = "red"

---------------------------------------------------------------------------
(* C20 *)

\* the call just made repeats the caller's first call: the same function on
\* the same arguments
RepeatsFirst == call # "none" /\ call = first.call /\ df = first.args

---------------------------------------------------------------------------
(* C21 *)

\* the core functions that take a table
CoreFunctions ==
    {"compute_fx_metrics", "compute_fx_stress_components", "compute_fx_stress_index",
     "analyze_fiscal_stress", "compute_recession_probability", "classify_policy_stance",
     "fx_traffic_light", "inflation_traffic_light", "liquidity_traffic_light",
     "policy_traffic_light", "fiscal_traffic_light", "external_traffic_light",
     "copper_traffic_light", "oil_traffic_light"}

\* C21: a call of a core function leaves every table its caller passed (the
\* rows, their order, the columns and the values, and the tables passed with
\* it) as it was before the call, whether the function returns or raises.
C21_CallerTablesUnchanged ==
    [][call' \in CoreFunctions => df' = df]_vars

\* fx_traffic_light, which sorts by Date, has returned on a table given in
\* descending Date order, and the caller's table is still in that order
C21_Witness ==
    /\ Returned("fx_traffic_light")
    /\ first.call = call /\ first.args = df
    /\ Len(df.rows) >= 2
    /\ df.rows[1].Date > df.rows[2].Date
    /\ ret.last_value = df.rows[1].USDZMW

---------------------------------------------------------------------------
(* C22, C26 *)

\* the stance the rule gives to a short-rate YoY change y and a term spread
\* s, in hundredths; a comparison with an undefined y is false
StanceOf(y, s) ==
    IF y # NaN /\ y > 2000 /\ s < 0 THEN "Tight"
    ELSE IF y # NaN /\ -50 < s /\ s < 50 /\ -1000 < y /\ y < 1000 THEN "Neutral"
    ELSE "Accommodative"

\* C22: classify_policy_stance returns one of Tight, Neutral, Accommodative,
\* and it is the stance the rule gives to the latest short-rate YoY change
\* and term spread of the table: Tight iff y > 20 and s < 0, otherwise Neutral
\* iff |s| < 0.5 and |y| < 10, otherwise Accommodative.
C22_PolicyStanceRule ==
    Returned("classify_policy_stance") =>
        /\ ret.stance \in {"Tight", "Neutral", "Accommodative"}
        /\ ret.short_rate_yoy = YoYOfShortRate
        /\ ret.term_spread = RawSpread(RowOfAge(0))
        /\ ret.stance = StanceOf(YoYOfShortRate, RawSpread(RowOfAge(0)))

\* a Tight stance on a table given latest row first
C22_Witness ==
    /\ Returned("classify_policy_stance")
    /\ ret.stance = "Tight"
    /\ Len(df.rows) >= 13
    /\ df.rows[1].Date > df.rows[2].Date

\* the order of the stances
SevStance(stance) ==
    CASE stance = "Accommodative" -> 0 [] stance = "Neutral" -> 1 [] stance = "Tight" -> 2

\* the short-rate YoY changes the latest change is raised to
RaisedStanceYoY == {-2500, -500, 0, 999, 1000, 1250, 2000, 2001, 2750}

\* C26 as stated: with the term spread held fixed, a higher short-rate YoY
\* change never gives a less restrictive stance (Accommodative < Neutral <
\* Tight).
C26_StanceMonotoneInYoY ==
    Returned("classify_policy_stance") =>
        \A y2 \in RaisedStanceYoY : Raises(ret.short_rate_yoy, y2) =>
            SevStance(PolicyStance(y2, ret.term_spread)) >= SevStance(ret.stance)

---------------------------------------------------------------------------
(* C23 *)

\* the indicator and the tone of each sentence template
SentenceKind(text) ==
    CASE text = "The Kwacha experienced **significant depreciation** ({mom:+.2f}% MoM), reflecting elevated FX market pressures" -> <<"FX", "red">>
      [] text = "The Kwacha traded with **moderate depreciation** ({mom:+.2f}% MoM) amid seasonal FX demand" -> <<"FX", "amber">>
      [] text = "FX conditions remained broadly **stable** ({mom:+.2f}% MoM)" -> <<"FX", "stable">>
      [] text = "Inflation remains **elevated** at {value:.1f}%, above the central bank target, with {mom:+.2f}% MoM pressure" -> <<"Inflation", "red">>
      [] text = "Inflation slightly **exceeds target** at {value:.1f}%, with persistent MoM price pressures ({mom:+.2f}%)" -> <<"Inflation", "amber">>
      [] text = "Inflation is **within target** at {value:.1f}%, with MoM trends easing ({mom:+.2f}%)" -> <<"Inflation", "stable">>
      [] text = "Banking system liquidity remains **strained**, with total reserves changing {mom:+.2f}% MoM" -> <<"Liquidity", "red">>
      [] text = "Liquidity conditions are **somewhat tight**, total reserves moved {mom:+.2f}% MoM" -> <<"Liquidity", "amber">>
      [] text = "Liquidity is broadly **stable**, total reserves changed {mom:+.2f}% MoM" -> <<"Liquidity", "stable">>
      [] text = "Fiscal operations show **high pressure**, with T-bills sales increasing {mom:+.2f}% MoM" -> <<"Fiscal", "red">>
      [] text = "Fiscal position is **moderately tight**, T-bills sales moved {mom:+.2f}% MoM" -> <<"Fiscal", "amber">>
      [] text = "Fiscal flows remain **manageable**, T-bills sales changed {mom:+.2f}% MoM" -> <<"Fiscal", "stable">>
      [] text = "External sector under **significant pressure**, gross reserves {value:.1f} B ZMW ({mom:+.2f}% MoM)" -> <<"External", "red">>
      [] text = "External sector shows **moderate stress**, gross reserves {value:.1f} B ZMW ({mom:+.2f}% MoM)" -> <<"External", "amber">>
      [] text = "External sector is **stable**, gross reserves {value:.1f} B ZMW ({mom:+.2f}% MoM)" -> <<"External", "stable">>
      [] text = "Copper prices show **significant volatility**, changing {mom:+.2f}% MoM" -> <<"Copper", "red">>
      [] text = "Copper prices **moderately volatile**, MoM change {mom:+.2f}%" -> <<"Copper", "amber">>
      [] text = "Copper prices remain **stable**, MoM change {mom:+.2f}%" -> <<"Copper", "stable">>
      [] text = "Oil prices show **significant volatility**, changing {mom:+.2f}% MoM" -> <<"Oil", "red">>
      [] text = "Oil prices **moderately volatile**, MoM change {mom:+.2f}%" -> <<"Oil", "amber">>
      [] text = "Oil prices remain **stable**, MoM change {mom:+.2f}%" -> <<"Oil", "stable">>
      [] text = "Monetary policy remains accommodative with BoZ policy rate at {policy_value:.2f}%" -> <<"Policy", "policy">>
      [] OTHER -> <<"none", "none">>

\* the fixed order of the indicators, and the status passed for each
IndicatorOrder == <<"FX", "Inflation", "Liquidity", "Fiscal", "External", "Copper", "Oil">>
StatusPassed(i) ==
    CASE i = 1 -> df.fx_gauge.status
      [] i = 2 -> df.inflation.status
      [] i = 3 -> df.liquidity.status
      [] i = 4 -> df.fiscal.status
      [] i = 5 -> df.external.status
      [] i = 6 -> df.commodity.status_copper
      [] i = 7 -> df.commodity.status_oil
ToneOf(status) ==
    IF status = "red" THEN "red" ELSE IF status = "amber" THEN "amber" ELSE "stable"

\* C23: the headline is the seven sentences in the order FX, Inflation,
\* Liquidity, Fiscal, External, Copper, Oil, the sentence of each indicator
\* being its red, amber or (for any other status) stable template; the Policy
\* sentence follows iff policy_value is not None, and the details mapping has
\* a Policy entry iff policy_value is not None.
C23_HeadlineSentences ==
    Returned("macro_headline") =>
        /\ Len(ret.headline) = IF df.policy_value.given THEN 8 ELSE 7
        /\ \A i \in 1..7 :
              SentenceKind(ret.headline[i].text) = <<IndicatorOrder[i], ToneOf(StatusPassed(i))>>
        /\ df.policy_value.given =>
              /\ SentenceKind(ret.headline[8].text) = <<"Policy", "policy">>
              /\ ret.headline[8].policy_value = df.policy_value.value
        /\ ("Policy" \in DOMAIN ret.details) <=> df.policy_value.given
        /\ \A i \in 1..7 : ret.details[IndicatorOrder[i]].commentary = ret.headline[i]

\* a headline with a policy value, copper red and oil amber, liquidity green
C23_Witness ==
    /\ Returned("macro_headline")
    /\ df.policy_value.given
    /\ df.commodity.status_copper = "red"
    /\ df.commodity.status_oil = "amber"
    /\ df.liquidity.status = "green"
    /\ Len(ret.headline) = 8

---------------------------------------------------------------------------
(* C24 *)

IsRed(item) == item.status = "red"

\* the items of the caller's gauges mapping whose status is red, in order
RedItems == SelectSeq(df.gauges, IsRed)

\* a key with every underscore written as a space
Spaced(key) == [i \in 1..Len(key) |-> IF key[i] = "_" THEN " " ELSE key[i]]

\* the first n of the names, separated by a comma and a space
RECURSIVE CommaList(_, _)
CommaList(names, n) ==
    IF n = 0 THEN <<>>
    ELSE IF n = 1 THEN names[1]
    ELSE CommaList(names, n - 1) \o <<",", " ">> \o names[n]

\* C24: the summary lists the keys of exactly the red indicators, in the
\* iteration order of gauges and with underscores replaced by spaces (so no
\* amber or green indicator is named), and it is the "Risks remain broadly
\* contained." text iff no indicator is red.
C24_ClosingSummaryNamesReds ==
    Returned("generate_closing_summary") =>
        /\ ret.summary.snapshot_month = df.snapshot_month
        /\ (Len(RedItems) = 0) <=>
              ret.summary.text = "### MacroGauge Summary - {snapshot_month}\nRisks remain broadly contained."
        /\ Len(RedItems) = 0 => "risk_list" \notin DOMAIN ret.summary
        /\ Len(RedItems) > 0 =>
              ret.summary.risk_list =
                 CommaList([k \in 1..Len(RedItems) |-> Spaced(RedItems[k].key)], Len(RedItems))

\* a mapping of a red, an amber and a red indicator, the first with two
\* underscores in its key
C24_Witness ==
    /\ Returned("generate_closing_summary")
    /\ Len(df.gauges) = 3
    /\ df.gauges[1].status = "red"
    /\ df.gauges[1].key = <<"E", "x", "t", "_", "S", "e", "c", "_", "B", "o", "P">>
    /\ df.gauges[2].status = "amber"
    /\ df.gauges[3].status = "red"
    /\ df.gauges[3].key = <<"F", "X">>
    /\ ret.summary.risk_list =
          <<"E", "x", "t", " ", "S", "e", "c", " ", "B", "o", "P", ",", " ", "F", "X">>

---------------------------------------------------------------------------
(* C25, C28 *)

\* C25: every confidence the core produces is a whole number from 10 to 95:
\* the confidence field of fx_state, inflation_state and fx_stress_state, and
\* the value compute_confidence returns for any arguments (it never raises).
C25_ConfidenceWithin10And95 ==
    /\ Returned("fx_state") => ret.confidence \in 10..95
    /\ Returned("inflation_state") => ret.confidence \in 10..95
    /\ Returned("fx_stress_state") => ret.confidence \in 10..95
    /\ call = "compute_confidence" => (ret.err = "none" /\ ret.value \in 10..95)

\* compute_confidence has truncated a score of 52.5 to 52
C25_Witness ==
    /\ call = "compute_confidence"
    /\ df.mom_change = 25
    /\ ~df.yoy_change.given
    /\ ~df.volatility.given
    /\ ret.err = "none"
    /\ ret.value = 52

\* min(10 |m|, 20) in hundredths, for a defined or infinite m
CappedMove(m) == IF m >= 200 \/ m <= -200 THEN 2000 ELSE IF m < 0 THEN -10 * m ELSE 10 * m

\* m and y are defined and have the same sign (both zero included)
SameSign(m, y) ==
    /\ m # NaN /\ y # NaN
    /\ (m > 0 /\ y > 0) \/ (m < 0 /\ y < 0) \/ (m = 0 /\ y = 0)

\* the confidence the formula of the claim gives
StatedConfidence(m, y, v) ==
    (5000 + CappedMove(m)
       + (IF ~y.given THEN 0 ELSE IF SameSign(m, y.value) THEN 1000 ELSE -1000)
       - (IF v.given /\ v.value # NaN /\ v.value > 200 THEN 1000 ELSE 0)) \div 100

\* C28 as stated: compute_confidence returns 50 + min(10 |mom_change|, 20),
\* plus 10 if yoy_change is supplied with the sign of mom_change and minus 10
\* if it is supplied with another sign, minus 10 if volatility is supplied
\* and above 2, truncated; the result always lies in [30, 80].
C28_ConfidenceFormula ==
    call = "compute_confidence" =>
        /\ ret.err = "none"
        /\ ret.value \in 30..80
        /\ df.mom_change # NaN =>
              ret.value = StatedConfidence(df.mom_change, df.yoy_change, df.volatility)

---------------------------------------------------------------------------
(* C27 *)

\* the probabilities 40 d + 40 u + 20 p, in hundredths of a percent
StatedProbabilities ==
    { 40 * d + 40 * u + 20 * p : d \in {0, 40, 70, 100}, u \in {0, 60, 100}, p \in {0, 50, 100} }

\* the band of a probability
StatedBand(p) ==
    IF p >= 6000 THEN "High" ELSE IF p >= 4000 THEN "Elevated"
    ELSE IF p >= 2000 THEN "Moderate" ELSE "Low"

\* C27: on a rates table of at least 13 rows with every 91-day and 10-year
\* yield defined, compute_recession_probability returns, with
\* inversion_months in 0..6, a probability in [0, 100] that is one of the
\* values 40 d + 40 u + 20 p (d in {0, 0.4, 0.7, 1}, u in {0, 0.6, 1}, p in
\* {0, 0.5, 1}), and the band of the returned probability.
C27_RecessionResultRanges ==
    (call = "compute_recession_probability" /\ Len(df.rows) >= 13) =>
        /\ ret.err = "none"
        /\ ret.inversion_months \in 0..6
        /\ ret.probability \in StatedProbabilities
        /\ 0 <= ret.probability /\ ret.probability <= 10000
        /\ ret.band = StatedBand(ret.probability)

\* all six latest months inverted and every score at its maximum
C27_Witness ==
    /\ Returned("compute_recession_probability")
    /\ Len(df.rows) >= 13
    /\ ret.inversion_months = 6
    /\ ret.probability = 10000
    /\ ret.band = "High"

---------------------------------------------------------------------------
(* C29 *)

\* rows that precede the last row in other tables with the same last row
OtherFxHistories ==
    {<<>>, <<FxMetricRow(230, 250)>>, <<FxMetricRow(0, 0), FxMetricRow(-100, 300)>>}
OtherInflHistories ==
    {<<>>, <<InflRow(1500, 100)>>, <<InflRow(NaN, NaN), InflRow(500, 0)>>}

\* C29 as stated: on a table of one or more rows fx_state and inflation_state
\* do not fail, and the record each returns is the one it returns for every
\* other table, of one row or more, that has the same last row (and, for
\* inflation_state, the same target and band).
C29_OnlyTheLastRowMatters ==
    /\ (call = "fx_state" /\ Len(df.rows) >= 1) =>
          /\ ret.err = "none"
          /\ \A h \in OtherFxHistories : fx_state(h \o <<Last(df.rows)>>) = ret
    /\ (call = "inflation_state" /\ Len(df.rows) >= 1) =>
          /\ ret.err = "none"
          /\ \A h \in OtherInflHistories :
                inflation_state(h \o <<Last(df.rows)>>, df.target, df.band) = ret

---------------------------------------------------------------------------
(* C30 *)

\* The rows of the caller's table in which both yields are present, and the
\* most recent of them by date.
PresentRows ==
    { df.rows[i] : i \in { j \in 1..Len(df.rows) :
                             df.rows[j].d91 # NaN /\ df.rows[j].y10 # NaN } }
MostRecentPresent ==
    CHOOSE r \in PresentRows : \A r2 \in PresentRows : r2.Date <= r.Date
LatestRowHasBoth ==
    /\ Len(df.rows) > 0
    /\ RowOfAge(0) \in PresentRows

C30_FallsBack ==
    /\ call = "get_latest_valid_term_spread"
    /\ Len(df.rows) > 1
    /\ ~LatestRowHasBoth
    /\ ret.date = Given(Len(df.rows) - 1)
    /\ ret.spread = Given(100)

\* no row has both yields
C30_NoneLeft ==
    /\ call = "get_latest_valid_term_spread"
    /\ Len(df.rows) > 1
    /\ ret.date = None

=============================================================================
